---- MODULE Spec2Model ----
(***************************************************************************)
(* Model of the conversational RAG engine of miso-helpful:                 *)
(*   src/src/rag/pipeline.py  (RAGPipeline)                                *)
(*   src/src/rag/database.py  (CookingDB.query, as an opaque retriever)    *)
(* Python strings are TLA+ strings; the string methods the code uses       *)
(* (in, lower, split, strip, lstrip, removeprefix, slicing, join) are      *)
(* operators that compute what the methods compute.                        *)
(***************************************************************************)
EXTENDS Integers, Sequences, FiniteSets, TLC

(***************************************************************************)
(* Python string primitives                                                *)
(***************************************************************************)

Min(a, b) == IF a < b THEN a ELSE b

Max(a, b) == IF a > b THEN a ELSE b

\* s[i-1] in Python terms: the i-th character (1-based) as a string
Char(s, i) == SubSeq(s, i, i)

\* s[:n]
Take(s, n) == SubSeq(s, 1, Min(n, Len(s)))

\* s[n:]  (n characters dropped)
Drop(s, n) == SubSeq(s, n + 1, Len(s))

\* s.startswith(p)
StartsWith(s, p) == Len(p) <= Len(s) /\ SubSeq(s, 1, Len(p)) = p

\* s.endswith(p)
EndsWith(s, p) == Len(p) <= Len(s) /\ SubSeq(s, Len(s) - Len(p) + 1, Len(s)) = p

\* t in s
Contains(s, t) == \E i \in 1..(Len(s) - Len(t) + 1) : SubSeq(s, i, i + Len(t) - 1) = t

\* s.find(t) + 1  (0 when t does not occur in s)
Find(s, t) ==
    IF Contains(s, t)
    THEN CHOOSE i \in 1..(Len(s) - Len(t) + 1) :
            /\ SubSeq(s, i, i + Len(t) - 1) = t
            /\ \A j \in 1..(i - 1) : SubSeq(s, j, j + Len(t) - 1) # t
    ELSE 0

\* s.split(t)[0]
SplitFirst(s, t) == IF Contains(s, t) THEN Take(s, Find(s, t) - 1) ELSE s

\* s.split(t)[-1]
RECURSIVE SplitLast(_, _)
SplitLast(s, t) ==
    IF Contains(s, t) THEN SplitLast(Drop(s, Find(s, t) + Len(t) - 1), t) ELSE s

\* s.split(t)
RECURSIVE Split(_, _)
Split(s, t) ==
    IF Contains(s, t)
    THEN <<Take(s, Find(s, t) - 1)>> \o Split(Drop(s, Find(s, t) + Len(t) - 1), t)
    ELSE <<s>>

UpperLetters ==
    <<"A", "B", "C", "D", "E", "F", "G", "H", "I", "J", "K", "L", "M",
      "N", "O", "P", "Q", "R", "S", "T", "U", "V", "W", "X", "Y", "Z">>

LowerLetters ==
    <<"a", "b", "c", "d", "e", "f", "g", "h", "i", "j", "k", "l", "m",
      "n", "o", "p", "q", "r", "s", "t", "u", "v", "w", "x", "y", "z">>

\* c.isalpha()
IsAlpha(c) == \E i \in 1..26 : c = UpperLetters[i] \/ c = LowerLetters[i]

\* c.isspace()
IsSpace(c) == c \in {" ", "\t", "\n", "\r"}

LowerChar(c) ==
    IF \E i \in 1..26 : c = UpperLetters[i]
    THEN LowerLetters[CHOOSE i \in 1..26 : c = UpperLetters[i]]
    ELSE c

\* s.lower()
RECURSIVE Lower(_)
Lower(s) == IF s = "" THEN "" ELSE LowerChar(Char(s, 1)) \o Lower(Drop(s, 1))

\* s.lstrip()
RECURSIVE LStrip(_)
LStrip(s) == IF s # "" /\ IsSpace(Char(s, 1)) THEN LStrip(Drop(s, 1)) ELSE s

\* s.rstrip()
RECURSIVE RStrip(_)
RStrip(s) ==
    IF s # "" /\ IsSpace(Char(s, Len(s))) THEN RStrip(Take(s, Len(s) - 1)) ELSE s

\* s.strip()
Strip(s) == RStrip(LStrip(s))

\* s.removeprefix(p)
RemovePrefix(s, p) == IF StartsWith(s, p) THEN Drop(s, Len(p)) ELSE s

\* len(s.split()): the number of maximal runs of non-whitespace characters
TokenCount(s) ==
    Cardinality({i \in 1..Len(s) :
        /\ ~IsSpace(Char(s, i))
        /\ (i = 1 \/ IsSpace(Char(s, i - 1)))})

\* sep.join(parts)
RECURSIVE Join(_, _)
Join(sep, parts) ==
    IF parts = <<>> THEN ""
    ELSE IF Len(parts) = 1 THEN parts[1]
    ELSE parts[1] \o sep \o Join(sep, Tail(parts))

\* any(word in s for word in words)
ContainsAny(s, words) == \E i \in 1..Len(words) : Contains(s, words[i])

\* seq[-n:]
LastN(seq, n) == SubSeq(seq, Max(1, Len(seq) - n + 1), Len(seq))

\* seq[:n]
FirstN(seq, n) == SubSeq(seq, 1, Min(n, Len(seq)))

(***************************************************************************)
(* Program constants and pure functions of RAGPipeline                     *)
(***************************************************************************)

\* pipeline.py:103-104 / 169-170: "Keep only last 10 turns"
HistoryLimit == 10

\* pipeline.py:46: recent_history = self.conversation_history[-2:]
RecentTurns == 2

\* pipeline.py:48: turn['assistant'][:100]
AssistantPreview == 100

\* pipeline.py:38: len(question.split()) < 5
ShortQuestionTokens == 5

\* pipeline.py:90 / 157: len(context_text) > 1200
ContextBudget == 1200

\* pipeline.py:80: n_results=3
SimpleTopK == 3

\* pipeline.py:145: n_results=2
SubQuestionTopK == 2

\* pipeline.py:130: [...][:2]
MaxSubQuestions == 2

\* pipeline.py:154: list(dict.fromkeys(all_contexts))[:3]
MaxUniqueContexts == 3

\* pipeline.py:60-64
reasoning_keywords ==
    <<"why", "how", "explain", "what happens", "difference", "compare",
      "should i", "can i", "substitute", "instead of", "alternative",
      "better", "versus", "vs", "or">>

\* pipeline.py:34
reference_words == <<"it", "that", "this", "them", "those", "the same", "also", "too">>

\* pipeline.py:236
special_tokens == <<"<|assistant|>", "<|user|>", "<|end|>", "<|system|>", "</s>">>

\* pipeline.py:82
NoInfoSimple == "I couldn't find any relevant cooking info in my database."

\* pipeline.py:151
NoInfoReasoning == "I couldn't find relevant information."

\* pipeline.py:252
ClearedMessage == "Conversation history cleared."

\* pipeline.py:60-64: needs_reasoning
needs_reasoning(q) == ContainsAny(Lower(q), reasoning_keywords)

\* mutant of RenderTurn: the assistant text is rendered whole
RenderTurn_whole(turn) ==
    "User: " \o turn.user \o "\nAssistant: " \o turn.assistant

\* pipeline.py:47-50: one rendered turn
RenderTurn(turn) ==
    "User: " \o turn.user \o "\nAssistant: " \o Take(turn.assistant, AssistantPreview)

RenderTurns(turns) == [i \in 1..Len(turns) |-> RenderTurn(turns[i])]

\* mutant of rewrite_query_with_context: the length test is <= 5
rewrite_query_short_le(q, history) ==
    IF history = <<>> THEN q
    ELSE LET has_reference == ContainsAny(Lower(q), reference_words)
             is_short == TokenCount(q) <= ShortQuestionTokens
         IN  IF ~(has_reference \/ is_short) THEN q
             ELSE LET recent_history == LastN(history, RecentTurns)
                      history_text == Join("\n", RenderTurns(recent_history))
                  IN  "Given previous discussion:\n" \o history_text
                        \o "\n\nCurrent question: " \o q

\* pipeline.py:28-54
rewrite_query_with_context(q, history) ==
    IF history = <<>> THEN q
    ELSE LET has_reference == ContainsAny(Lower(q), reference_words)
             is_short == TokenCount(q) < ShortQuestionTokens
         IN  IF ~(has_reference \/ is_short) THEN q
             ELSE LET recent_history == LastN(history, RecentTurns)
                      history_text == Join("\n", RenderTurns(recent_history))
                  IN  "Given previous discussion:\n" \o history_text
                        \o "\n\nCurrent question: " \o q

\* pipeline.py:130: the lines of the breakdown that hold at least one letter
HasAlpha(s) == \E i \in 1..Len(s) : IsAlpha(Char(s, i))

RECURSIVE UsableLines(_)
UsableLines(lines) ==
    IF lines = <<>> THEN <<>>
    ELSE (IF Strip(Head(lines)) # "" /\ HasAlpha(Head(lines))
          THEN <<Strip(Head(lines))>> ELSE <<>>) \o UsableLines(Tail(lines))

\* pipeline.py:127-130: breakdown text -> sub_questions
parse_sub_questions(generated_text) ==
    FirstN(UsableLines(Split(Strip(generated_text), "\n")), MaxSubQuestions)

\* pipeline.py:154: list(dict.fromkeys(all_contexts))
RECURSIVE Dedup(_)
Dedup(seq) ==
    IF seq = <<>> THEN <<>>
    ELSE LET rest == Dedup(FirstN(seq, Len(seq) - 1))
             x == seq[Len(seq)]
         IN  IF \E i \in 1..Len(rest) : rest[i] = x THEN rest ELSE Append(rest, x)

unique_contexts_no_dedup(ctxs) == FirstN(ctxs, MaxUniqueContexts)

\* pipeline.py:154
unique_contexts_of(ctxs) == FirstN(Dedup(ctxs), MaxUniqueContexts)

\* mutant of build_context_text: a joined text of exactly the budget is cut too
build_context_text_ge(ctxs) ==
    LET joined == Join("\n\n---\n\n", ctxs)
    IN  IF Len(joined) >= ContextBudget THEN Take(joined, ContextBudget) \o "..." ELSE joined

\* pipeline.py:87-91 / 155-158
build_context_text(ctxs) ==
    LET joined == Join("\n\n---\n\n", ctxs)
    IN  IF Len(joined) > ContextBudget THEN Take(joined, ContextBudget) \o "..." ELSE joined

\* pipeline.py:107 / 172: m.get('source', 'unknown').split('/')[-1], as a set
MetaSource(m) == IF "source" \in DOMAIN m THEN m.source ELSE "unknown"

format_sources(metas) == {SplitLast(MetaSource(metas[i]), "/") : i \in 1..Len(metas)}

\* pipeline.py:236-238: cut at the first occurrence of each special token, in list order
RECURSIVE CutTokens(_, _)
CutTokens(answer, tokens) ==
    IF tokens = <<>> THEN answer
    ELSE CutTokens(SplitFirst(answer, Head(tokens)), Tail(tokens))

\* mutant of CutPartial: the partial-fragment cut is left out
CutPartial_skipped(answer) == answer

\* pipeline.py:241-242: cut at a partial token fragment
CutPartial(answer) == SplitFirst(answer, "<|")

\* pipeline.py:245
StripPrefixes(answer) ==
    Strip(RemovePrefix(RemovePrefix(LStrip(answer), "Response:"), "Answer:"))

\* pipeline.py:233-247: raw generated_text -> returned answer
clean_answer(generated_text) ==
    StripPrefixes(CutPartial(CutTokens(generated_text, special_tokens)))

\* pipeline.py:220-221: the except clause and its message test
is_retryable(e) ==
    /\ e.type = "RuntimeError"
    /\ (Contains(e.msg, "probability") \/ Contains(e.msg, "inf") \/ Contains(e.msg, "nan"))

\* mutant of truncate_history: the slice keeps the first ten turns ([:10])
truncate_history_keep_first(history) ==
    IF Len(history) > HistoryLimit THEN FirstN(history, HistoryLimit) ELSE history

\* pipeline.py:102-104 / 169-170
truncate_history(history) ==
    IF Len(history) > HistoryLimit THEN LastN(history, HistoryLimit) ELSE history

\* pipeline.py:97-104 / 164-170
commit_turn(history, q, answer) ==
    truncate_history(Append(history, [user |-> q, assistant |-> answer]))

\* no exception
NoError == [type |-> "", msg |-> ""]

(***************************************************************************)
(* Chunkers and splitter (chunking.py)                                     *)
(***************************************************************************)

\* d.get(k, default)
Get(d, k, default) == IF k \in DOMAIN d THEN d[k] ELSE default

\* s.replace(old, new)
RECURSIVE Replace(_, _, _)
Replace(s, old, new) ==
    IF Contains(s, old)
    THEN Take(s, Find(s, old) - 1) \o new \o Replace(Drop(s, Find(s, old) + Len(old) - 1), old, new)
    ELSE s

UpperChar(c) ==
    IF \E i \in 1..26 : c = LowerLetters[i]
    THEN UpperLetters[CHOOSE i \in 1..26 : c = LowerLetters[i]]
    ELSE c

\* s.title(): a letter after a letter is lowered, any other letter is raised
RECURSIVE TitleFrom(_, _)
TitleFrom(s, after_letter) ==
    IF s = "" THEN ""
    ELSE LET c == Char(s, 1)
         IN  (IF after_letter THEN LowerChar(c) ELSE UpperChar(c))
                \o TitleFrom(Drop(s, 1), IsAlpha(c))

Title(s) == TitleFrom(s, FALSE)

\* f"{n}" for an int
IntStr(n) == ToString(n)

\* f"{x:.2%}" for x = hundredths_of_percent / 10000
FormatPercent(hundredths_of_percent) ==
    LET cents == hundredths_of_percent % 100
    IN  IntStr(hundredths_of_percent \div 100) \o "."
            \o (IF cents < 10 THEN "0" ELSE "") \o IntStr(cents) \o "%"

\* the characters of the data in code point order
CodePointOrder ==
    " !#$%&'()*+,-./0123456789:;<=>?@ABCDEFGHIJKLMNOPQRSTUVWXYZ[]^_abcdefghijklmnopqrstuvwxyz{|}~"

\* a < b on str
RECURSIVE StrLess(_, _)
StrLess(a, b) ==
    IF b = "" THEN FALSE
    ELSE IF a = "" THEN TRUE
    ELSE IF Char(a, 1) = Char(b, 1) THEN StrLess(Drop(a, 1), Drop(b, 1))
    ELSE Find(CodePointOrder, Char(a, 1)) < Find(CodePointOrder, Char(b, 1))

\* sorted(strings) for a set of str
RECURSIVE Sorted(_)
Sorted(strings) ==
    IF strings = {} THEN <<>>
    ELSE LET least == CHOOSE x \in strings : \A y \in strings \ {x} : StrLess(x, y)
         IN  <<least>> \o Sorted(strings \ {least})

\* what a chunker call gives: a chunk list, or a raised exception
Chunked(cs) == [ok |-> TRUE, chunks |-> cs, error |-> NoError]

ChunkerRaised(type, msg) ==
    [ok |-> FALSE, chunks |-> <<>>, error |-> [type |-> type, msg |-> msg]]

\* the first of keys that the dict d lacks ("" when it has them all)
RECURSIVE MissingKey(_, _)
MissingKey(d, keys) ==
    IF keys = <<>> THEN ""
    ELSE IF Head(keys) \notin DOMAIN d THEN Head(keys)
    ELSE MissingKey(d, Tail(keys))

\* the first key that a subscript d[k], taken for each of dicts in order and
\* for each of keys in order, does not find
RECURSIVE FirstKeyError(_, _)
FirstKeyError(dicts, keys) ==
    IF dicts = <<>> THEN ""
    ELSE IF MissingKey(Head(dicts), keys) # "" THEN MissingKey(Head(dicts), keys)
    ELSE FirstKeyError(Tail(dicts), keys)

\* str(KeyError(k))
KeyError(k) == ChunkerRaised("KeyError", "'" \o k \o "'")

\* chunking.py:75-96
chunk_recipe_json(data, source_file) ==
    LET ingredients == Get(data, "ingredients", <<>>)
        bad == FirstKeyError(ingredients, <<"item", "quantity">>)
        ingredients_text ==
            Join("\n", [i \in 1..Len(ingredients) |->
                            "- " \o ingredients[i].item \o ": " \o ingredients[i].quantity])
        recipe_text ==
            "Recipe: " \o Get(data, "dish_name", "Unknown") \o "\n\n"
                \o "Prep time: " \o Get(data, "prep_time", "N/A") \o "\n"
                \o "Cooking time: " \o Get(data, "cooking_time", "N/A") \o "\n"
                \o "Portions: " \o Get(data, "portions", "N/A") \o "\n\n"
                \o "Ingredients:\n" \o ingredients_text
    IN  IF bad # "" THEN KeyError(bad)
        ELSE Chunked(<<[text |-> recipe_text,
                        metadata |-> [source |-> source_file,
                                      type |-> "recipe",
                                      dish_name |-> Get(data, "dish_name", "Unknown")]]>>)

\* chunking.py:188: the thresholds of the pairing strength
StrongAbove == 30

ModerateAbove == 15

pairing_strength_ge(shared) ==
    IF shared >= StrongAbove THEN "strongly"
    ELSE IF shared >= ModerateAbove THEN "moderately"
    ELSE "somewhat"

\* chunking.py:187
pairing_strength(shared) ==
    IF shared > StrongAbove THEN "strongly"
    ELSE IF shared > ModerateAbove THEN "moderately"
    ELSE "somewhat"

\* chunking.py:183-201: the chunk of one pair
pair_chunk(pair, source_file) ==
    LET ing1 == Title(Replace(pair.ingredient1, "_", " "))
        ing2 == Title(Replace(pair.ingredient2, "_", " "))
        shared == pair.num_shared_compound
    IN  [text |-> "Ingredient Pairing: " \o ing1 \o " and " \o ing2 \o "\n\n"
                    \o "These ingredients share " \o IntStr(shared)
                    \o " chemical compounds, suggesting they " \o pairing_strength(shared)
                    \o " complement each other.\n"
                    \o "Pairing strength: " \o Title(pairing_strength(shared))
                    \o "\nShared compounds: " \o IntStr(shared),
         metadata |-> [source |-> source_file,
                       type |-> "ingredient_pairing",
                       ingredient1 |-> pair.ingredient1,
                       ingredient2 |-> pair.ingredient2,
                       shared_compounds |-> shared]]

\* info.get('category') of a dict that has no category
PyNone == "None"

\* chunking.py:204-216: the chunk of one entry of data['ingredients']
ingredient_info_chunk(ingredient, info, source_file) ==
    [text |-> "Ingredient: " \o Title(Replace(ingredient, "_", " "))
                \o "\nCategory: " \o Title(Get(info, "category", "unknown"))
                \o "\nPrevalence: " \o FormatPercent(Get(info, "prevalence", 0)),
     metadata |-> [source |-> source_file,
                   type |-> "ingredient_info",
                   ingredient |-> ingredient,
                   category |-> Get(info, "category", PyNone)]]

\* chunking.py:178-219
chunk_ingredient_data_json(data, source_file) ==
    LET pairs == Get(data, "ingredient_pairs", <<>>)
        infos == Get(data, "ingredients", <<>>)
        bad == FirstKeyError(pairs, <<"ingredient1", "ingredient2", "num_shared_compound">>)
    IN  IF bad # "" THEN KeyError(bad)
        ELSE Chunked([i \in 1..Len(pairs) |-> pair_chunk(pairs[i], source_file)]
                        \o [i \in 1..Len(infos) |->
                                ingredient_info_chunk(infos[i][1], infos[i][2], source_file)])

\* an ingredient given as a json object instead of a string: a value that
\* cannot be a dict key (TypeError: unhashable type)
JsonObject == "{}"

\* the entries of the lists of a list, in reading order: the ingredients of
\* all recipes of a cuisine, the chunks appended in a loop over records
RECURSIVE Flatten(_)
Flatten(lists) ==
    IF Len(lists) = 0 THEN <<>>
    ELSE IF Len(lists) = 1 THEN lists[1]
    ELSE LET half == Len(lists) \div 2
         IN  Flatten(SubSeq(lists, 1, half)) \o Flatten(SubSeq(lists, half + 1, Len(lists)))

\* ingredient_freq[ing]
Frequency(ing, recipe_list) ==
    LET flat == Flatten(recipe_list)
    IN  Cardinality({i \in 1..Len(flat) : flat[i] = ing})

\* chunking.py:117: sorted(ingredient_freq.items(), key=lambda x: x[1], reverse=True);
\* the sort is stable, equal counts stay in insertion order
RECURSIVE SortedByFrequency(_, _)
SortedByFrequency(ings, recipe_list) ==
    IF ings = <<>> THEN <<>>
    ELSE LET k == CHOOSE i \in 1..Len(ings) :
                    /\ \A j \in 1..Len(ings) :
                          Frequency(ings[j], recipe_list) <= Frequency(ings[i], recipe_list)
                    /\ \A j \in 1..(i - 1) :
                          Frequency(ings[j], recipe_list) < Frequency(ings[i], recipe_list)
         IN  <<ings[k]>> \o SortedByFrequency(SubSeq(ings, 1, k - 1) \o SubSeq(ings, k + 1, Len(ings)),
                                              recipe_list)

\* chunking.py:118
TopIngredients == 15

\* chunking.py:148
MinCuisines == 2

\* chunking.py:108-137: the profile chunk of one cuisine
cuisine_profile_chunk(cuisine, recipe_list, source_file) ==
    LET ingredient_freq == Dedup(Flatten(recipe_list))
        top_ingredients == FirstN(SortedByFrequency(ingredient_freq, recipe_list), TopIngredients)
        ing_list == Join(", ", [i \in 1..Len(top_ingredients) |->
                                    Title(Replace(top_ingredients[i], "_", " "))])
    IN  [text |-> cuisine \o " Cuisine\n\nCommon ingredients: " \o ing_list
                    \o "\n\nBased on " \o IntStr(Len(recipe_list)) \o " recipes with "
                    \o IntStr(Len(ingredient_freq)) \o " unique ingredients.",
         metadata |-> [source |-> source_file,
                       type |-> "cuisine_profile",
                       cuisine |-> Lower(cuisine),
                       num_recipes |-> Len(recipe_list)]]

\* the ingredients of all cuisines, in reading order
RECURSIVE AllIngredients(_)
AllIngredients(items) ==
    IF items = <<>> THEN <<>> ELSE Flatten(Head(items)[2]) \o AllIngredients(Tail(items))

\* ingredient_to_cuisines[ingredient]
CuisinesOf(ingredient, items) ==
    {items[i][1] : i \in {k \in 1..Len(items) :
                            \E j \in 1..Len(Flatten(items[k][2])) :
                                Flatten(items[k][2])[j] = ingredient}}

\* chunking.py:149-165: the chunk of one ingredient found in 2 or more cuisines
ingredient_cuisine_chunk(ingredient, cuisines, source_file) ==
    [text |-> "Ingredient: " \o Title(Replace(ingredient, "_", " "))
                \o "\n\nFound in " \o IntStr(Cardinality(cuisines)) \o " cuisines: "
                \o Join(", ", Sorted(cuisines))
                \o "\n\nThis ingredient appears across multiple culinary traditions.",
     metadata |-> [source |-> source_file,
                   type |-> "ingredient_cuisine_map",
                   ingredient |-> ingredient,
                   num_cuisines |-> Cardinality(cuisines)]]

in_enough_cuisines_one(cuisines) == Cardinality(cuisines) >= 1

\* chunking.py:148: len(cuisines) >= 2
in_enough_cuisines(cuisines) == Cardinality(cuisines) >= MinCuisines

\* chunking.py:147-165
RECURSIVE ingredient_cuisine_chunks(_, _, _)
ingredient_cuisine_chunks(ingredients, items, source_file) ==
    IF ingredients = <<>> THEN <<>>
    ELSE (IF in_enough_cuisines(CuisinesOf(Head(ingredients), items))
          THEN <<ingredient_cuisine_chunk(Head(ingredients),
                                          CuisinesOf(Head(ingredients), items), source_file)>>
          ELSE <<>>)
            \o ingredient_cuisine_chunks(Tail(ingredients), items, source_file)

\* chunking.py:114, 174-176: ingredient_freq[ing] raises for some ingredient
Unhashable(items) ==
    \E i \in 1..Len(AllIngredients(items)) : AllIngredients(items)[i] = JsonObject

\* chunking.py:98-176; cuisine_dict.items() is given as the sequence items
chunk_cuisine_ingredients_dict(items, source_file) ==
    IF Unhashable(items) THEN <<>>
    ELSE [i \in 1..Len(items) |-> cuisine_profile_chunk(items[i][1], items[i][2], source_file)]
            \o ingredient_cuisine_chunks(Dedup(AllIngredients(items)), items, source_file)

\* chunking.py:19-53: the chunks of one entry of data['cooking_methods']; kind
\* is what isinstance finds the entry's value to be
method_chunks(method, source_file) ==
    IF method.kind = "dict"
    THEN LET description == Get(method.value, "description", "")
         IN  IF "techniques" \in DOMAIN method.value
             THEN [t \in 1..Len(method.value.techniques) |->
                     [text |-> "Method: " \o Title(Replace(method.name, "_", " "))
                                 \o "\nCategory Description: " \o description
                                 \o "\nTechnique: " \o method.value.techniques[t][1]
                                 \o "\n" \o method.value.techniques[t][2],
                      metadata |-> [source |-> source_file,
                                    type |-> "technique",
                                    method |-> method.name,
                                    technique |-> method.value.techniques[t][1]]]]
             ELSE <<[text |-> "Cooking Method: " \o Title(method.name) \o "\n\n" \o description,
                     metadata |-> [source |-> source_file, type |-> "method",
                                   method |-> method.name]]>>
    ELSE IF method.kind = "str"
    THEN <<[text |-> "Healthy Cooking Method: " \o method.name \o "\n\n" \o method.value,
            metadata |-> [source |-> source_file, type |-> "method", method |-> method.name]]>>
    ELSE <<>>

\* chunking.py:64-71: the chunks of one entry of data['kitchen_tools']
tool_chunks(category, source_file) ==
    IF category.kind = "dict" /\ "items" \in DOMAIN category.value
    THEN [t \in 1..Len(category.value.items) |->
            [text |-> "Kitchen Tool (" \o Title(category.name) \o "): "
                        \o category.value.items[t][1] \o "\n\n" \o category.value.items[t][2],
             metadata |-> [source |-> source_file, type |-> "tool",
                           tool |-> category.value.items[t][1]]]]
    ELSE <<>>

\* chunking.py:5-73
chunk_fcs_json(data, source_file) ==
    (IF "introduction" \in DOMAIN data
     THEN <<[text |-> Get(data, "title", "Introduction") \o "\n\n" \o data.introduction,
             metadata |-> [source |-> source_file, type |-> "introduction"]]>>
     ELSE <<>>)
    \o (IF "cooking_methods" \in DOMAIN data
        THEN Flatten([i \in 1..Len(data.cooking_methods) |->
                        method_chunks(data.cooking_methods[i], source_file)])
        ELSE <<>>)
    \o (IF "food_preparation_tips" \in DOMAIN data
        THEN <<[text |-> "Healthy Food Preparation Tips:\n"
                            \o Join("\n", [i \in 1..Len(data.food_preparation_tips) |->
                                              "- " \o data.food_preparation_tips[i]]),
                metadata |-> [source |-> source_file, type |-> "tips"]]>>
        ELSE <<>>)
    \o (IF "kitchen_tools" \in DOMAIN data
        THEN Flatten([i \in 1..Len(data.kitchen_tools) |->
                        tool_chunks(data.kitchen_tools[i], source_file)])
        ELSE <<>>)

\* a file that pd.read_csv or json.load cannot read; one they can read is
\* [readable |-> TRUE, ...] with what they give
Unreadable == [readable |-> FALSE]

\* pd.notna(val): an empty cell is read as NaN
NotNa(val) == val # ""

\* chunking.py:226: the line of one row, missing values left out
RECURSIVE row_text(_, _)
row_text(columns, row) ==
    IF columns = <<>> THEN <<>>
    ELSE (IF NotNa(Head(row)) THEN <<Head(columns) \o ": " \o Head(row)>> ELSE <<>>)
            \o row_text(Tail(columns), Tail(row))

\* chunking.py:221-235; df is the file at file_path as pd.read_csv reads it
chunk_csv_simple(file_path, df) ==
    IF ~df.readable THEN <<>>
    ELSE LET text_parts ==
                <<"Data from " \o SplitLast(file_path, "/") \o ":\n">>
                    \o [r \in 1..Len(df.rows) |-> Join(" | ", row_text(df.columns, df.rows[r]))]
         IN  <<[text |-> Join("\n", text_parts),
                metadata |-> [source |-> file_path, type |-> "csv_data",
                              filename |-> SplitLast(file_path, "/")]]>>

\* chunking.py:251
GroupSize == 5

\* chunking.py:254-256: the text of one group of comments
RECURSIVE comment_lines(_)
comment_lines(group) ==
    IF group = <<>> THEN ""
    ELSE Get(Head(group), "author", "User") \o ": " \o Get(Head(group), "body", "") \o "\n"
            \o comment_lines(Tail(group))

\* chunking.py:252-261: the chunks of the comments from position i (0-based) on
RECURSIVE comment_chunks(_, _, _, _)
comment_chunks(post, comments, i, file_path) ==
    IF i >= Len(comments) THEN <<>>
    ELSE <<[text |-> "Comments for post '" \o Get(post, "title", "") \o "':\n"
                        \o comment_lines(SubSeq(comments, i + 1, Min(i + GroupSize, Len(comments)))),
            metadata |-> [source |-> file_path, type |-> "reddit_comments",
                          post_title |-> Get(post, "title", "")]]>>
            \o comment_chunks(post, comments, i + GroupSize, file_path)

\* chunking.py:243-261: the chunks of one post
post_chunks(post, file_path) ==
    <<[text |-> "Title: " \o Get(post, "title", "") \o "\n\nPost: " \o Get(post, "selftext", ""),
       metadata |-> [source |-> file_path, type |-> "reddit_post",
                     post_title |-> Get(post, "title", "")]]>>
        \o comment_chunks(post, Get(post, "comments", <<>>), 0, file_path)

\* chunking.py:237-266; file is the file at file_path as json.load reads it
chunk_reddit_json(file_path, file) ==
    IF ~file.readable THEN <<>>
    ELSE Flatten([i \in 1..Len(file.data) |-> post_chunks(file.data[i], file_path)])

\* chunking.py:272: the separators given to RecursiveCharacterTextSplitter
Separators == <<"\n\n", "\n", ".", "!", "?", " ">>

\* chunking.py:268: the defaults of chunk_size and chunk_overlap
DefaultChunkSize == 500

DefaultChunkOverlap == 50

\* The splitter is the RecursiveCharacterTextSplitter of langchain_text_splitters,
\* built at chunking.py:269-273 with keep_separator and strip_whitespace at
\* their defaults (both on) and len as the length function; the operators up
\* to split_text follow its _split_text_with_regex, _join_docs, _merge_splits
\* and _split_text.

\* the pieces of text between occurrences of separator, each occurrence kept
\* at the start of the piece that follows it, empty pieces left out
split_keeping_separator(text, separator) ==
    LET parts == Split(text, separator)
        pieces == [i \in 1..Len(parts) |-> IF i = 1 THEN parts[i] ELSE separator \o parts[i]]
    IN  SelectSeq(pieces, LAMBDA s : s # "")

\* the summed length of the pieces of current_doc
RECURSIVE Total(_)
Total(current_doc) ==
    IF current_doc = <<>> THEN 0 ELSE Len(Head(current_doc)) + Total(Tail(current_doc))

\* the joined and stripped pieces, as a list of no or one document
join_docs(current_doc) ==
    LET text == Strip(Join("", current_doc))
    IN  IF text = "" THEN <<>> ELSE <<text>>

\* the pieces kept as overlap when a piece of length len is to be added:
\* pieces leave from the front while more than chunk_overlap is held, or the
\* new piece still does not fit
RECURSIVE keep_overlap(_, _, _, _)
keep_overlap(current_doc, len, chunk_size, chunk_overlap) ==
    IF \/ Total(current_doc) > chunk_overlap
       \/ (Total(current_doc) + len > chunk_size /\ Total(current_doc) > 0)
    THEN keep_overlap(Tail(current_doc), len, chunk_size, chunk_overlap)
    ELSE current_doc

\* the documents merged from small pieces: docs so far, current_doc being filled
RECURSIVE merge_splits(_, _, _, _, _)
merge_splits(splits, current_doc, docs, chunk_size, chunk_overlap) ==
    IF splits = <<>> THEN docs \o join_docs(current_doc)
    ELSE LET d == Head(splits)
             full == /\ Total(current_doc) + Len(d) > chunk_size
                     /\ current_doc # <<>>
         IN  merge_splits(Tail(splits),
                          Append(IF full
                                 THEN keep_overlap(current_doc, Len(d), chunk_size, chunk_overlap)
                                 ELSE current_doc, d),
                          IF full THEN docs \o join_docs(current_doc) ELSE docs,
                          chunk_size, chunk_overlap)

RECURSIVE split_text_on(_, _, _, _)
RECURSIVE split_pieces(_, _, _, _, _)

\* the pieces of one level: those under chunk_size are collected and merged,
\* any other is split on the separators that are left, or, when none is left,
\* emitted as it is
split_pieces(splits, good_splits, new_separators, chunk_size, chunk_overlap) ==
    LET merged == IF good_splits # <<>>
                  THEN merge_splits(good_splits, <<>>, <<>>, chunk_size, chunk_overlap)
                  ELSE <<>>
    IN  IF splits = <<>> THEN merged
        ELSE IF Len(Head(splits)) < chunk_size
        THEN split_pieces(Tail(splits), Append(good_splits, Head(splits)), new_separators,
                          chunk_size, chunk_overlap)
        ELSE merged
                \o (IF new_separators = <<>> THEN <<Head(splits)>>
                    ELSE split_text_on(Head(splits), new_separators, chunk_size, chunk_overlap))
                \o split_pieces(Tail(splits), <<>>, new_separators, chunk_size, chunk_overlap)

\* text is split on the first of separators that occurs in it (on the last one
\* when none occurs)
split_text_on(text, separators, chunk_size, chunk_overlap) ==
    LET found == {i \in 1..Len(separators) : Contains(text, separators[i])}
        k == IF found = {} THEN Len(separators)
             ELSE CHOOSE i \in found : \A j \in found : i <= j
        new_separators == IF found = {} THEN <<>>
                          ELSE SubSeq(separators, k + 1, Len(separators))
    IN  split_pieces(split_keeping_separator(text, separators[k]), <<>>, new_separators,
                     chunk_size, chunk_overlap)

\* chunking.py:278: splitter.split_text(chunk['text'])
split_text(text, chunk_size, chunk_overlap) ==
    split_text_on(text, Separators, chunk_size, chunk_overlap)

\* chunking.py:282: {**chunk['metadata'], 'chunk_part': i}
with_chunk_part(metadata, i) ==
    [k \in DOMAIN metadata \cup {"chunk_part"} |-> IF k = "chunk_part" THEN i ELSE metadata[k]]

\* chunking.py:276-285: what one chunk becomes
split_chunk_part_only(chunk, chunk_size, chunk_overlap) ==
    IF Len(chunk.text) > chunk_size
    THEN LET text_parts == split_text(chunk.text, chunk_size, chunk_overlap)
         IN  [i \in 1..Len(text_parts) |->
                 [text |-> text_parts[i], metadata |-> [chunk_part |-> i - 1]]]
    ELSE <<chunk>>

split_chunk(chunk, chunk_size, chunk_overlap) ==
    IF Len(chunk.text) > chunk_size
    THEN LET text_parts == split_text(chunk.text, chunk_size, chunk_overlap)
         IN  [i \in 1..Len(text_parts) |->
                 [text |-> text_parts[i], metadata |-> with_chunk_part(chunk.metadata, i - 1)]]
    ELSE <<chunk>>

\* chunking.py:268-286
RECURSIVE apply_recursive_chunking(_, _, _)
apply_recursive_chunking(chunk_list, chunk_size, chunk_overlap) ==
    IF chunk_list = <<>> THEN <<>>
    ELSE split_chunk(Head(chunk_list), chunk_size, chunk_overlap)
            \o apply_recursive_chunking(Tail(chunk_list), chunk_size, chunk_overlap)

(***************************************************************************)
(* State of one CookingDB instance and of the ingest_data call in progress *)
(* (database.py), and the latest chunker call made on its own              *)
(***************************************************************************)
VARIABLES
    collection,             \* self.collection: the indexed documents, in insertion order
    ingest_pc,              \* position of the ingest_data call in progress ("idle": none)
    all_chunks,             \* local of ingest_data
    batch_start,            \* the loop variable i of the batch loop
    ingest_result,          \* how the latest ingest_data call ended
    folder,                 \* the processed-data folder the latest call read
    assigned,               \* history variable: every (id, chunk) handed to collection.add
    add_calls,              \* history variable: the collection.add calls of the latest
                            \* ingest_data call, each the documents it was given
    runs,                   \* history variable: number of ingest_data calls made
    chunker_call,           \* the latest direct chunker call: function name and argument
    chunks,                 \* what that call returned
    before_split,           \* history variable: chunks before the latest splitter pass
    split_passes            \* history variable: the budgets of the splitter passes made
                            \* since the latest chunker call

ingestVars ==
    <<collection, ingest_pc, all_chunks, batch_start, ingest_result, folder, assigned,
      add_calls, runs, chunker_call, chunks, before_split, split_passes>>

NoIngest == [error |-> NoError, kind |-> "none"]

NoCall == [fn |-> "none"]

\* database.py:27-30: the collection of a fresh store
InitIngest ==
    /\ collection = <<>>
    /\ ingest_pc = "idle"
    /\ all_chunks = <<>>
    /\ batch_start = 0
    /\ ingest_result = NoIngest
    /\ folder = <<>>
    /\ assigned = {}
    /\ add_calls = <<>>
    /\ runs = 0
    /\ chunker_call = NoCall
    /\ chunks = <<>>
    /\ before_split = <<>>
    /\ split_passes = <<>>

(***************************************************************************)
(* State of one RAGPipeline instance and of the answer_question call in    *)
(* progress                                                                *)
(***************************************************************************)
VARIABLES
    conversation_history,   \* self.conversation_history
    pc,                     \* position of the call in progress ("idle": none)
    frame,                  \* which body runs: "simple", "reasoning", or _answer_simple
                            \* entered from the try block / the except clause
    question,               \* the argument of answer_question
    contextualized_query,   \* local of _answer_simple / _answer_with_reasoning
    last_query,             \* arguments of the latest self.db.query call
    sub_questions,          \* local of _answer_with_reasoning
    sub_idx,                \* position of the for loop over sub_questions
    contexts,               \* locals of _answer_simple
    metadatas,
    all_contexts,           \* locals of _answer_with_reasoning
    all_metadatas,
    unique_contexts,
    context_text,           \* the context placed in the prompt
    result,                 \* what the latest public call gave its caller
    decomp_calls,           \* self.llm calls for the breakdown, this call
    gen_calls,              \* self.llm calls inside _generate_answer, this call
    last_gen,               \* the latest self.llm call inside _generate_answer
    committed,              \* history variable: turns appended since the last clear
    hist_at_call,           \* history variable: conversation_history at call entry
    route,                  \* history variable: the branch answer_question took
    cleared                 \* history variable: clear_history ran, no turn appended since

pipelineVars ==
    <<conversation_history, pc, frame, question, contextualized_query, last_query,
      sub_questions, sub_idx, contexts, metadatas, all_contexts, all_metadatas,
      unique_contexts, context_text, result, decomp_calls, gen_calls, last_gen,
      committed, hist_at_call, route, cleared>>

vars == <<pipelineVars, ingestVars>>

NoResult == [answer |-> "", error |-> NoError, kind |-> "none", sources |-> {}]

Returned(answer, sources) ==
    [answer |-> answer, error |-> NoError, kind |-> "return", sources |-> sources]

Raised(e) == [answer |-> "", error |-> e, kind |-> "raise", sources |-> {}]

NoQuery == [text |-> "", n_results |-> 0]

NoGen == [ok |-> TRUE, error |-> NoError, text |-> "", mode |-> "none"]

\* an outcome of one self.llm call: generated text, or a raised exception
Generated(text) == [ok |-> TRUE, error |-> NoError, text |-> text]

Failed(type, msg) == [ok |-> FALSE, error |-> [type |-> type, msg |-> msg], text |-> ""]

Texts(docs) == [i \in 1..Len(docs) |-> docs[i].text]

Metas(docs) == [i \in 1..Len(docs) |-> docs[i].metadata]

InSimple == frame \in {"simple", "try_simple", "except_simple"}

\* pipeline.py:9
Init ==
    /\ conversation_history = <<>>
    /\ pc = "idle"
    /\ frame = "none"
    /\ question = ""
    /\ contextualized_query = ""
    /\ last_query = NoQuery
    /\ sub_questions = <<>>
    /\ sub_idx = 0
    /\ contexts = <<>>
    /\ metadatas = <<>>
    /\ all_contexts = <<>>
    /\ all_metadatas = <<>>
    /\ unique_contexts = <<>>
    /\ context_text = ""
    /\ result = NoResult
    /\ decomp_calls = 0
    /\ gen_calls = 0
    /\ last_gen = NoGen
    /\ committed = <<>>
    /\ hist_at_call = <<>>
    /\ route = "none"
    /\ cleared = FALSE
    /\ InitIngest

\* pipeline.py:56-71, and the first statement of the chosen body (77 / 115)
answer_question(q, max_turns) ==
    /\ pc = "idle"
    /\ Len(committed) < max_turns
    /\ question' = q
    /\ hist_at_call' = conversation_history
    /\ contextualized_query' = rewrite_query_with_context(q, conversation_history)
    /\ IF needs_reasoning(q)
       THEN route' = "reasoning" /\ frame' = "reasoning" /\ pc' = "decompose"
       ELSE route' = "simple" /\ frame' = "simple" /\ pc' = "retrieve_simple"
    /\ last_query' = NoQuery
    /\ sub_questions' = <<>>
    /\ sub_idx' = 0
    /\ contexts' = <<>>
    /\ metadatas' = <<>>
    /\ all_contexts' = <<>>
    /\ all_metadatas' = <<>>
    /\ unique_contexts' = <<>>
    /\ context_text' = ""
    /\ result' = NoResult
    /\ decomp_calls' = 0
    /\ gen_calls' = 0
    /\ last_gen' = NoGen
    /\ UNCHANGED <<conversation_history, committed, cleared>>

\* mutant of EnterSimple: the fallback passes the rewritten query on,
\* _answer_simple(contextualized_query)
EnterSimple_rewritten(new_frame) ==
    /\ frame' = new_frame
    /\ pc' = "retrieve_simple"
    /\ contextualized_query' =
            rewrite_query_with_context(contextualized_query, conversation_history)
    /\ contexts' = <<>>
    /\ metadatas' = <<>>
    /\ context_text' = ""

\* pipeline.py:73-77: _answer_simple(question) is entered from _answer_with_reasoning
EnterSimple(new_frame) ==
    /\ frame' = new_frame
    /\ pc' = "retrieve_simple"
    /\ contextualized_query' = rewrite_query_with_context(question, conversation_history)
    /\ contexts' = <<>>
    /\ metadatas' = <<>>
    /\ context_text' = ""

\* pipeline.py:117-138: the breakdown call, the parse, and both fallbacks
decompose(o) ==
    /\ pc = "decompose"
    /\ decomp_calls' = decomp_calls + 1
    /\ IF o.ok
       THEN LET subs == parse_sub_questions(o.text)
            IN  /\ sub_questions' = subs
                /\ IF Len(subs) < 1
                   THEN EnterSimple("try_simple") /\ sub_idx' = 0
                   ELSE /\ pc' = "retrieve_sub"
                        /\ sub_idx' = 1
                        /\ UNCHANGED <<frame, contextualized_query, contexts,
                                       metadatas, context_text>>
       ELSE EnterSimple("except_simple") /\ UNCHANGED <<sub_questions, sub_idx>>
    /\ UNCHANGED <<conversation_history, question, last_query, all_contexts,
                   all_metadatas, unique_contexts, result, gen_calls, last_gen,
                   committed, hist_at_call, route, cleared>>

\* mutant of retrieve_simple: no early return on an empty result
retrieve_simple_no_early_return(docs) ==
    /\ pc = "retrieve_simple"
    /\ Len(docs) <= SimpleTopK
    /\ last_query' = [text |-> contextualized_query, n_results |-> SimpleTopK]
    /\ contexts' = Texts(docs)
    /\ metadatas' = Metas(docs)
    /\ context_text' = build_context_text(Texts(docs))
    /\ pc' = "gen_sampled"
    /\ UNCHANGED <<conversation_history, frame, question, contextualized_query,
                   sub_questions, sub_idx, all_contexts, all_metadatas,
                   unique_contexts, decomp_calls, gen_calls, last_gen,
                   committed, hist_at_call, route, cleared, result>>

\* pipeline.py:79-91
retrieve_simple(docs) ==
    /\ pc = "retrieve_simple"
    /\ Len(docs) <= SimpleTopK
    /\ last_query' = [text |-> contextualized_query, n_results |-> SimpleTopK]
    /\ IF docs = <<>>
       THEN /\ result' = Returned(NoInfoSimple, {})
            /\ pc' = "idle"
            /\ UNCHANGED <<contexts, metadatas, context_text>>
       ELSE /\ contexts' = Texts(docs)
            /\ metadatas' = Metas(docs)
            /\ context_text' = build_context_text(Texts(docs))
            /\ pc' = "gen_sampled"
            /\ UNCHANGED result
    /\ UNCHANGED <<conversation_history, frame, question, contextualized_query,
                   sub_questions, sub_idx, all_contexts, all_metadatas,
                   unique_contexts, decomp_calls, gen_calls, last_gen,
                   committed, hist_at_call, route, cleared>>

\* mutant of retrieve_sub: no early return when nothing was retrieved
retrieve_sub_no_early_return(docs) ==
    /\ pc = "retrieve_sub"
    /\ Len(docs) <= SubQuestionTopK
    /\ last_query' = [text |-> sub_questions[sub_idx], n_results |-> SubQuestionTopK]
    /\ all_contexts' = all_contexts \o Texts(docs)
    /\ all_metadatas' = all_metadatas \o Metas(docs)
    /\ IF sub_idx < Len(sub_questions)
       THEN /\ sub_idx' = sub_idx + 1
            /\ UNCHANGED <<pc, result, unique_contexts, context_text>>
       ELSE /\ UNCHANGED sub_idx
            /\ unique_contexts' = unique_contexts_of(all_contexts')
            /\ context_text' = build_context_text(unique_contexts')
            /\ pc' = "gen_sampled"
            /\ UNCHANGED result
    /\ UNCHANGED <<conversation_history, frame, question, contextualized_query,
                   sub_questions, contexts, metadatas, decomp_calls, gen_calls,
                   last_gen, committed, hist_at_call, route, cleared>>

\* pipeline.py:144-158: one iteration of the loop; after the last one, lines 150-158
retrieve_sub(docs) ==
    /\ pc = "retrieve_sub"
    /\ Len(docs) <= SubQuestionTopK
    /\ last_query' = [text |-> sub_questions[sub_idx], n_results |-> SubQuestionTopK]
    /\ all_contexts' = all_contexts \o Texts(docs)
    /\ all_metadatas' = all_metadatas \o Metas(docs)
    /\ IF sub_idx < Len(sub_questions)
       THEN /\ sub_idx' = sub_idx + 1
            /\ UNCHANGED <<pc, result, unique_contexts, context_text>>
       ELSE /\ UNCHANGED sub_idx
            /\ IF all_contexts' = <<>>
               THEN /\ result' = Returned(NoInfoReasoning, {})
                    /\ pc' = "idle"
                    /\ UNCHANGED <<unique_contexts, context_text>>
               ELSE /\ unique_contexts' = unique_contexts_of(all_contexts')
                    /\ context_text' = build_context_text(unique_contexts')
                    /\ pc' = "gen_sampled"
                    /\ UNCHANGED result
    /\ UNCHANGED <<conversation_history, frame, question, contextualized_query,
                   sub_questions, contexts, metadatas, decomp_calls, gen_calls,
                   last_gen, committed, hist_at_call, route, cleared>>

Finish_commits_query(generated_text) ==
    LET answer == clean_answer(generated_text)
        turn == [user |-> contextualized_query, assistant |-> answer]
    IN  /\ conversation_history' = commit_turn(conversation_history, contextualized_query, answer)
        /\ committed' = Append(committed, turn)
        /\ cleared' = FALSE
        /\ result' = Returned(answer,
                        format_sources(IF InSimple THEN metadatas ELSE all_metadatas))
        /\ pc' = "idle"
        /\ UNCHANGED <<frame, contextualized_query, contexts, metadatas, context_text>>

\* pipeline.py:233-247, then 96-109 or 163-174: clean, commit, return
Finish(generated_text) ==
    LET answer == clean_answer(generated_text)
        turn == [user |-> question, assistant |-> answer]
    IN  /\ conversation_history' = commit_turn(conversation_history, question, answer)
        /\ committed' = Append(committed, turn)
        /\ cleared' = FALSE
        /\ result' = Returned(answer,
                        format_sources(IF InSimple THEN metadatas ELSE all_metadatas))
        /\ pc' = "idle"
        /\ UNCHANGED <<frame, contextualized_query, contexts, metadatas, context_text>>

\* mutant of Propagate: the turn is recorded, with an empty answer, before the
\* exception reaches the caller
Propagate_after_commit(e) ==
    IF frame = "try_simple"
    THEN /\ EnterSimple("except_simple")
         /\ UNCHANGED <<conversation_history, committed, cleared, result>>
    ELSE /\ result' = Raised(e)
         /\ pc' = "idle"
         /\ conversation_history' = commit_turn(conversation_history, question, "")
         /\ committed' = Append(committed, [user |-> question, assistant |-> ""])
         /\ cleared' = FALSE
         /\ UNCHANGED <<frame, contextualized_query, contexts, metadatas, context_text>>

\* an exception leaves _generate_answer: inside the try block of
\* _answer_with_reasoning (134) it is caught at 136 and line 138 runs;
\* anywhere else it reaches the caller of answer_question
Propagate(e) ==
    IF frame = "try_simple"
    THEN /\ EnterSimple("except_simple")
         /\ UNCHANGED <<conversation_history, committed, cleared, result>>
    ELSE /\ result' = Raised(e)
         /\ pc' = "idle"
         /\ UNCHANGED <<conversation_history, committed, cleared, frame,
                        contextualized_query, contexts, metadatas, context_text>>

\* pipeline.py:205-221: the sampled call and the test of the except clause
generate_sampled(o) ==
    /\ pc = "gen_sampled"
    /\ gen_calls' = gen_calls + 1
    /\ last_gen' = [ok |-> o.ok, error |-> o.error, text |-> o.text, mode |-> "sampled"]
    /\ IF o.ok
       THEN Finish(o.text)
       ELSE IF is_retryable(o.error)
            THEN /\ pc' = "gen_greedy"
                 /\ UNCHANGED <<conversation_history, committed, cleared, result, frame,
                                contextualized_query, contexts, metadatas, context_text>>
            ELSE Propagate(o.error)
    /\ UNCHANGED <<question, last_query, sub_questions, sub_idx, all_contexts,
                   all_metadatas, unique_contexts, decomp_calls, hist_at_call, route>>

\* pipeline.py:222-229: the greedy call, made inside the except clause
generate_greedy(o) ==
    /\ pc = "gen_greedy"
    /\ gen_calls' = gen_calls + 1
    /\ last_gen' = [ok |-> o.ok, error |-> o.error, text |-> o.text, mode |-> "greedy"]
    /\ IF o.ok THEN Finish(o.text) ELSE Propagate(o.error)
    /\ UNCHANGED <<question, last_query, sub_questions, sub_idx, all_contexts,
                   all_metadatas, unique_contexts, decomp_calls, hist_at_call, route>>

\* mutant of clear_history: the latest turn survives the clear
clear_history_keep_last ==
    /\ pc = "idle"
    /\ conversation_history' = LastN(conversation_history, 1)
    /\ committed' = <<>>
    /\ cleared' = TRUE
    /\ hist_at_call' = conversation_history
    /\ result' = [answer |-> ClearedMessage, error |-> NoError, kind |-> "cleared",
                  sources |-> {}]
    /\ frame' = "none"
    /\ route' = "none"
    /\ question' = ""
    /\ contextualized_query' = ""
    /\ last_query' = NoQuery
    /\ sub_questions' = <<>>
    /\ sub_idx' = 0
    /\ contexts' = <<>>
    /\ metadatas' = <<>>
    /\ all_contexts' = <<>>
    /\ all_metadatas' = <<>>
    /\ unique_contexts' = <<>>
    /\ context_text' = ""
    /\ decomp_calls' = 0
    /\ gen_calls' = 0
    /\ last_gen' = NoGen
    /\ UNCHANGED pc

\* pipeline.py:249-252 (a new public call: the observations of the previous
\* call are reset, as answer_question resets them)
clear_history ==
    /\ pc = "idle"
    /\ conversation_history' = <<>>
    /\ committed' = <<>>
    /\ cleared' = TRUE
    /\ hist_at_call' = conversation_history
    /\ result' = [answer |-> ClearedMessage, error |-> NoError, kind |-> "cleared",
                  sources |-> {}]
    /\ frame' = "none"
    /\ route' = "none"
    /\ question' = ""
    /\ contextualized_query' = ""
    /\ last_query' = NoQuery
    /\ sub_questions' = <<>>
    /\ sub_idx' = 0
    /\ contexts' = <<>>
    /\ metadatas' = <<>>
    /\ all_contexts' = <<>>
    /\ all_metadatas' = <<>>
    /\ unique_contexts' = <<>>
    /\ context_text' = ""
    /\ decomp_calls' = 0
    /\ gen_calls' = 0
    /\ last_gen' = NoGen
    /\ UNCHANGED pc

(***************************************************************************)
(* CookingDB.ingest_data (database.py) and direct chunker calls            *)
(***************************************************************************)

\* database.py:124
BatchSize == 5000

\* os.path.basename(path)
Basename(path) == SplitLast(path, "/")

\* the chunk lists of a sequence of chunker results, one after the other
RECURSIVE ConcatChunks(_)
ConcatChunks(results) ==
    IF results = <<>> THEN <<>> ELSE Head(results).chunks \o ConcatChunks(Tail(results))

\* the results before the first one that raised
RECURSIVE UntilRaise(_)
UntilRaise(results) ==
    IF results = <<>> \/ ~Head(results).ok THEN <<>>
    ELSE <<Head(results)>> \o UntilRaise(Tail(results))

\* the first exception among results (NoError when none raised)
RECURSIVE FirstRaised(_)
FirstRaised(results) ==
    IF results = <<>> THEN NoError
    ELSE IF ~Head(results).ok THEN Head(results).error
    ELSE FirstRaised(Tail(results))

\* database.py:74: chunk_3a2m_recipe_json is imported from chunking.py, which
\* does not define it; as a chunker of the single-recipe shape it gives the one
\* recipe card chunk_recipe_json gives
chunk_3a2m_recipe_json(recipe_data, source_file) == chunk_recipe_json(recipe_data, source_file)

\* database.py:36-118: the chunks collected from the folder, or the exception
\* that leaves ingest_data.  A folder is a record of what exists under
\* processed_data_path: fcs, healthy, ingredient_data, cuisine (parsed json),
\* foc and reddit (files in glob order), recipes_3a2m (a file), csv (a file).
collect_chunks(processed) ==
    LET specific ==
            (IF "fcs" \in DOMAIN processed THEN chunk_fcs_json(processed.fcs, "FCS.json") ELSE <<>>)
            \o (IF "healthy" \in DOMAIN processed
                THEN chunk_fcs_json(processed.healthy, "healthy_cooking_method.json") ELSE <<>>)
        foc_files == SelectSeq(Get(processed, "foc", <<>>), LAMBDA f : ~Contains(f.path, "sections"))
        foc == [i \in 1..Len(foc_files) |->
                    chunk_recipe_json(foc_files[i].data, Basename(foc_files[i].path))]
        recipe_array == IF "recipes_3a2m" \in DOMAIN processed /\ processed.recipes_3a2m.readable
                        THEN processed.recipes_3a2m.data ELSE <<>>
        recipes_3a2m == UntilRaise([i \in 1..Len(recipe_array) |->
                            chunk_3a2m_recipe_json(recipe_array[i], "3a2m_recipe_data.json")])
        pairings == IF "ingredient_data" \in DOMAIN processed
                    THEN chunk_ingredient_data_json(processed.ingredient_data, "ingredient_data.json")
                    ELSE Chunked(<<>>)
        \* line 89 reads the local chunks, which only lines 50, 61, 74 and 87 assign
        chunks_assigned ==
            \/ "fcs" \in DOMAIN processed
            \/ "healthy" \in DOMAIN processed
            \/ foc_files # <<>>
            \/ recipes_3a2m # <<>>
            \/ "ingredient_data" \in DOMAIN processed
        csv == IF "csv" \in DOMAIN processed
               THEN chunk_csv_simple(processed.csv.path, processed.csv) ELSE <<>>
        reddit_files == Get(processed, "reddit", <<>>)
        reddit_chunks ==
            ConcatChunks([i \in 1..Len(reddit_files) |->
                            Chunked(chunk_reddit_json(reddit_files[i].path, reddit_files[i]))])
        cuisine == IF "cuisine" \in DOMAIN processed
                   THEN chunk_cuisine_ingredients_dict(processed.cuisine, "cuisine_ingredient_data.json")
                   ELSE <<>>
    IN  IF FirstRaised(foc) # NoError
        THEN [ok |-> FALSE, chunks |-> <<>>, error |-> FirstRaised(foc)]
        ELSE IF ~pairings.ok THEN pairings
        ELSE IF ~chunks_assigned THEN ChunkerRaised("UnboundLocalError", "chunks")
        ELSE Chunked(specific \o ConcatChunks(foc) \o ConcatChunks(recipes_3a2m)
                        \o pairings.chunks \o csv
                        \o apply_recursive_chunking(reddit_chunks, DefaultChunkSize,
                                                    DefaultChunkOverlap)
                        \o cuisine)

\* database.py:32-124: ingest_data up to the batch loop
ingest_data(processed_folder, max_runs) ==
    LET collected == collect_chunks(processed_folder)
    IN  /\ ingest_pc = "idle"
        /\ runs < max_runs
        /\ runs' = runs + 1
        /\ folder' = processed_folder
        /\ batch_start' = 0
        /\ add_calls' = <<>>
        /\ IF ~collected.ok
           THEN /\ ingest_result' = [error |-> collected.error, kind |-> "raise"]
                /\ all_chunks' = <<>>
                /\ UNCHANGED ingest_pc
           ELSE /\ all_chunks' = collected.chunks
                /\ IF collected.chunks = <<>>
                   THEN ingest_result' = [error |-> NoError, kind |-> "no data"]
                            /\ UNCHANGED ingest_pc
                   ELSE ingest_result' = NoIngest /\ ingest_pc' = "add"
        /\ UNCHANGED <<collection, assigned, chunker_call, chunks, before_split, split_passes>>
        /\ UNCHANGED pipelineVars

\* mutant of batch_documents: every batch is numbered from 0
batch_documents_from_zero(i) ==
    LET batch == SubSeq(all_chunks, i + 1, Min(i + BatchSize, Len(all_chunks)))
    IN  [k \in 1..Len(batch) |->
            [text |-> batch[k].text,
             metadata |-> batch[k].metadata, id |-> "doc_" \o IntStr(k - 1)]]

\* database.py:126-132: the documents of the batch that starts at i
batch_documents(i) ==
    LET batch == SubSeq(all_chunks, i + 1, Min(i + BatchSize, Len(all_chunks)))
    IN  [k \in 1..Len(batch) |->
            [text |-> batch[k].text,
             metadata |-> batch[k].metadata, id |-> "doc_" \o IntStr((k - 1) + i)]]

\* database.py:125-133: one iteration of the batch loop.  collection.add is
\* given ids the collection may already hold; the store then either leaves
\* the documents it holds as they are and adds the others, or raises.
add_batch(on_duplicate) ==
    LET batch == batch_documents(batch_start)
        held == {collection[j].id : j \in 1..Len(collection)}
        duplicate == \E k \in 1..Len(batch) : batch[k].id \in held
    IN  /\ ingest_pc = "add"
        /\ assigned' = assigned \cup {batch[k] : k \in 1..Len(batch)}
        /\ add_calls' = Append(add_calls, batch)
        /\ IF duplicate /\ on_duplicate = "raise"
           THEN /\ ingest_result' = [error |-> [type |-> "DuplicateIDError", msg |-> ""],
                                     kind |-> "raise"]
                /\ ingest_pc' = "idle"
                /\ UNCHANGED <<collection, batch_start>>
           ELSE /\ collection' = collection \o SelectSeq(batch, LAMBDA d : d.id \notin held)
                /\ IF batch_start + BatchSize < Len(all_chunks)
                   THEN /\ batch_start' = batch_start + BatchSize
                        /\ UNCHANGED <<ingest_pc, ingest_result>>
                   ELSE /\ ingest_result' = [error |-> NoError, kind |-> "done"]
                        /\ ingest_pc' = "idle"
                        /\ UNCHANGED batch_start
        /\ UNCHANGED <<all_chunks, folder, runs, chunker_call, chunks, before_split,
                       split_passes>>
        /\ UNCHANGED pipelineVars

\* a chunker is called on its own with one source record
call_chunker(fn, record, source_file, outcome) ==
    /\ ingest_pc = "idle"
    /\ chunker_call' = [error |-> outcome.error, source_file |-> source_file, fn |-> fn,
                        record |-> record]
    /\ chunks' = outcome.chunks
    /\ before_split' = <<>>
    /\ split_passes' = <<>>
    /\ UNCHANGED <<collection, ingest_pc, all_chunks, batch_start, ingest_result, folder,
                   assigned, add_calls, runs>>
    /\ UNCHANGED pipelineVars

\* chunking.py:268-286 applied to the chunks at hand
recursive_chunking(budget, max_passes) ==
    /\ ingest_pc = "idle"
    /\ chunker_call # NoCall
    /\ Len(split_passes) < max_passes
    /\ before_split' = chunks
    /\ chunks' = apply_recursive_chunking(chunks, budget.chunk_size, budget.chunk_overlap)
    /\ split_passes' = Append(split_passes, budget)
    /\ UNCHANGED <<collection, ingest_pc, all_chunks, batch_start, ingest_result, folder,
                   assigned, add_calls, runs, chunker_call>>
    /\ UNCHANGED pipelineVars

(***************************************************************************)
(* Environments: what callers ask, what the store returns (database.py     *)
(* 137-138), and what the generation model produces or raises.             *)
(***************************************************************************)

\* bound on the turns appended between two clears, mixed environment
MaxTurns == 2

\* bound on the turns appended between two clears, long conversations
MaxTurnsLong == 12

DocSear ==
    [text |-> "Sear chicken in a hot pan.",
     metadata |-> [source |-> "FCS.json", type |-> "technique"]]

DocMiso ==
    [text |-> "Miso soup: dashi, miso, tofu.",
     metadata |-> [source |-> "data/processed/foc/miso_soup.json", type |-> "recipe"]]

DocSearPost ==
    [text |-> "Sear chicken in a hot pan.",
     metadata |-> [source |-> "data/processed/reddit/cooking.json", type |-> "reddit_post"]]

Questions ==
    {"How do I sear chicken?", "What's for dinner", "Tell me about miso",
     "This pan is safe in an oven", "Name one good cast iron pan"}

Breakdowns ==
    {Generated(" Which pan is hot?\n2. Which oil is best?"),
     Generated(" Which pan is hot?"),
     Generated(" 1.\n2."),
     Failed("RuntimeError", "CUDA error: device-side assert triggered")}

Retrievals ==
    {<<>>, <<DocSear>>, <<DocMiso, DocSearPost>>, <<DocSear, DocMiso, DocSearPost>>}

Generations ==
    {Generated("Answer: Sear it hot.<|end|>"),
     Generated("<|assistant|> Sear it hot."),
     Failed("RuntimeError", "probability tensor contains either inf, nan or element < 0"),
     Failed("RuntimeError", "CUDA out of memory"),
     Failed("ValueError", "logits contain nan")}

MixedEnv ==
    [max_turns |-> MaxTurns, questions |-> Questions, breakdowns |-> Breakdowns,
     retrievals |-> Retrievals, generations |-> Generations]

LongEnv ==
    [max_turns |-> MaxTurnsLong,
     questions |-> {"How do I sear chicken?", "Tell me about miso"},
     breakdowns |-> {Generated(" Which pan is hot?"),
                     Failed("RuntimeError", "CUDA error: device-side assert triggered")},
     retrievals |-> {<<>>, <<DocSear>>},
     generations |-> {Generated("Sear it hot."),
                      Failed("RuntimeError", "probability tensor contains either inf, nan or element < 0")}]

\* bound on the number of fragments a raw model output is assembled from
MaxFragments == 3

\* pieces of raw model output: whole markers, halves of markers, labels, text
Fragments ==
    {"", "<|end|>", "</s>", "<|", "<", "|user|>", "Answer:", "Response:", " ", "ok"}

RECURSIVE RawOutputs(_)
RawOutputs(n) ==
    IF n = 0 THEN {""}
    ELSE {head \o piece : head \in RawOutputs(n - 1), piece \in Fragments}

SanitizeEnv ==
    [max_turns |-> 1,
     questions |-> {"How do I sear chicken?", "Tell me about miso"},
     breakdowns |-> {Generated(" Which pan is hot?")},
     retrievals |-> {<<DocSear>>},
     generations |-> {Generated(raw) : raw \in RawOutputs(MaxFragments)}
                        \cup {Failed("RuntimeError", "probability tensor contains either inf, nan or element < 0")}]

DocOil ==
    [text |-> "Use oil with a high smoke point.",
     metadata |-> [source |-> "data/processed/healthy_cooking_method.json", type |-> "tips"]]

DocRest ==
    [text |-> "Rest the chicken before slicing.",
     metadata |-> [source |-> "data/processed/reddit/chicken.json", type |-> "reddit_comments"]]

ManyDocs == {DocSear, DocMiso, DocSearPost, DocOil, DocRest}

\* what the store can return for one query: up to two of five documents, in
\* any order (the same one twice when it was indexed twice), or three of them
ManyRetrievals ==
    {<<>>} \cup {<<d>> : d \in ManyDocs}
           \cup {<<d, e>> : d \in ManyDocs, e \in ManyDocs}
           \cup {<<DocSear, DocOil, DocRest>>}

\* an environment whose retrievals differ from one sub-question to the next
ManyDocsEnv ==
    [max_turns |-> 1,
     questions |-> {"How do I sear chicken?", "Tell me about miso"},
     breakdowns |-> {Generated(" Which pan is hot?\n2. Which oil is best?"),
                     Generated(" 1.\n2.")},
     retrievals |-> ManyRetrievals,
     generations |-> {Generated("Answer: Sear it hot.<|end|>"),
                      Failed("RuntimeError", "probability tensor contains either inf, nan or element < 0")}]

AnswerQuestion(env) ==
    /\ \E q \in env.questions : answer_question(q, env.max_turns)
    /\ UNCHANGED ingestVars

Decompose(env) ==
    /\ \E o \in env.breakdowns : decompose(o)
    /\ UNCHANGED ingestVars

RetrieveSimple(env) ==
    /\ \E docs \in env.retrievals : retrieve_simple(docs)
    /\ UNCHANGED ingestVars

RetrieveSub(env) ==
    /\ \E docs \in env.retrievals : retrieve_sub(docs)
    /\ UNCHANGED ingestVars

GenerateSampled(env) ==
    /\ \E o \in env.generations : generate_sampled(o)
    /\ UNCHANGED ingestVars

GenerateGreedy(env) ==
    /\ \E o \in env.generations : generate_greedy(o)
    /\ UNCHANGED ingestVars

ClearHistory ==
    /\ clear_history
    /\ UNCHANGED ingestVars

Step(env) ==
    \/ AnswerQuestion(env)
    \/ Decompose(env)
    \/ RetrieveSimple(env)
    \/ RetrieveSub(env)
    \/ GenerateSampled(env)
    \/ GenerateGreedy(env)
    \/ ClearHistory

Next == Step(MixedEnv)

Spec == Init /\ [][Next]_vars

NextLong == Step(LongEnv)

SpecLong == Init /\ [][NextLong]_vars

NextSanitize == Step(SanitizeEnv)

SpecSanitize == Init /\ [][NextSanitize]_vars

NextManyDocs == Step(ManyDocsEnv)

SpecManyDocs == Init /\ [][NextManyDocs]_vars

\* s repeated n times
RECURSIVE Repeat(_, _)
Repeat(s, n) ==
    IF n = 0 THEN ""
    ELSE IF n % 2 = 1 THEN s \o Repeat(s, n - 1)
    ELSE LET half == Repeat(s, n \div 2) IN half \o half

\* an indexed document whose text has n characters and starts with tag
LongDoc(tag, n) ==
    [text |-> tag \o Repeat("x", n - Len(tag)),
     metadata |-> [source |-> "data/processed/reddit/cooking.json", type |-> "reddit_post"]]

\* documents around the context budget: with the separator of 7 characters,
\* Fill + Half is exactly the budget and FillPlus + Half is one over it
DocHalf == LongDoc("Half pan. ", ContextBudget \div 2)

DocFill == LongDoc("Fill. ", ContextBudget - (ContextBudget \div 2) - 7)

DocFillPlus == LongDoc("Fill more. ", ContextBudget - (ContextBudget \div 2) - 6)

DocBudget == LongDoc("Whole. ", ContextBudget)

DocOverBudget == LongDoc("Over. ", ContextBudget + 1)

LongDocs == {DocSear, DocHalf, DocFill, DocFillPlus, DocBudget, DocOverBudget}

LongRetrievals ==
    {<<>>} \cup {<<d>> : d \in LongDocs}
           \cup {<<d, e>> : d \in LongDocs, e \in LongDocs}
           \cup {<<DocSear, DocFill, DocHalf>>}

\* an environment whose retrievals reach and pass the context budget
LongDocsEnv ==
    [max_turns |-> 1,
     questions |-> {"How do I sear chicken?", "Tell me about miso"},
     breakdowns |-> {Generated(" Which pan is hot?\n2. Which oil is best?"),
                     Generated(" 1.\n2.")},
     retrievals |-> LongRetrievals,
     generations |-> {Generated("Sear it hot."),
                      Failed("RuntimeError", "probability tensor contains either inf, nan or element < 0")}]

NextLongDocs == Step(LongDocsEnv)

SpecLongDocs == Init /\ [][NextLongDocs]_vars

\* answer_question calls per behaviour of the environment of long answers
MaxTurnsPreview == 4

\* an environment whose answers reach and pass the preview length of the
\* rewrite, asked short questions that the rewrite contextualizes
PreviewEnv ==
    [max_turns |-> MaxTurnsPreview,
     questions |-> {"Tell me about miso", "How do I sear it?"},
     breakdowns |-> {Generated(" Which pan is hot?"), Generated(" 1.\n2.")},
     retrievals |-> {<<DocSear>>},
     generations |-> {Generated("Sear it hot."),
                      Generated("Exactly. " \o Repeat("y", AssistantPreview - 9)),
                      Generated("One more. " \o Repeat("z", AssistantPreview - 9)),
                      Failed("RuntimeError", "probability tensor contains either inf, nan or element < 0")}]

NextPreview == Step(PreviewEnv)

SpecPreview == Init /\ [][NextPreview]_vars

(***************************************************************************)
(* Source records, processed-data folders, and the specifications of       *)
(* ingestion and of the chunkers                                           *)
(***************************************************************************)

FcsRecords ==
    {[introduction |-> "How heat changes food.",
      cooking_methods |->
          <<[kind |-> "dict", value |-> [description |-> "Uses water or steam.",
                        techniques |-> << <<"Poaching", "Cook gently below a simmer.">>,
                                          <<"Steaming", "Cook over boiling water.">> >>],
             name |-> "moist_heat"],
            [kind |-> "dict", value |-> [description |-> "No water."], name |-> "dry heat"],
            [kind |-> "list", value |-> <<>>, name |-> "notes"]>>,
      kitchen_tools |->
          <<[kind |-> "dict", value |-> [items |-> << <<"Chef knife", "All purpose.">> >>],
             name |-> "cutting tools"],
            [kind |-> "dict", value |-> [note |-> "none"], name |-> "other"]>>,
      title |-> "Cooking Basics"],
     [cooking_methods |-> <<[kind |-> "str", value |-> "Cook over fire.", name |-> "Grilling"]>>,
      food_preparation_tips |-> <<"Wash hands", "Trim visible fat">>],
     [introduction |-> ""],
     [version |-> "1"]}

RecipeMiso ==
    [ingredients |-> <<[item |-> "miso", quantity |-> "2 tbsp"],
                       [item |-> "tofu", quantity |-> "100 g"]>>, dish_name |-> "Miso Soup", prep_time |-> "5 min",
     cooking_time |-> "10 min",
     portions |-> "2"]

RecipeNoItem ==
    [ingredients |-> <<[item |-> "chicken", quantity |-> "1"], [quantity |-> "1 tbsp"]>>,
     dish_name |-> "Seared Chicken"]

RecipeRecords ==
    {RecipeMiso, RecipeNoItem,
     [dish_name |-> "Toast"],
     [ingredients |-> <<[item |-> "rice"]>>]}

RecipeLists ==
    {<<>>,
     << <<"tomato", "basil">>, <<"tomato", "garlic">> >>,
     << <<"basil", "fish_sauce">> >>,
     << <<"garlic">>, <<"garlic", "soy_sauce">> >>,
     << <<"tomato">>, <<"basil", JsonObject>> >>}

\* cuisine_dict.items() of a mapping with one or two cuisines
CuisineDicts ==
    {<< <<c, r>> >> : c \in {"Italian", "Thai"}, r \in RecipeLists}
        \cup {<< <<"Italian", r>>, <<"Thai", q>> >> : r \in RecipeLists, q \in RecipeLists}
        \cup {<< <<"Thai", r>>, <<"Italian", q>>, <<"thai fusion", r>> >> :
                r \in RecipeLists, q \in RecipeLists}

SharedCounts == {0, 5, 14, 15, 16, 20, 29, 30, 31, 40}

Pair(shared) ==
    [ingredient1 |-> "soy_sauce", ingredient2 |-> "black pepper", num_shared_compound |-> shared]

IngredientData ==
    {[ingredient_pairs |-> <<Pair(n)>>] : n \in SharedCounts}
        \cup {[ingredients |-> << <<"soy_sauce", [category |-> "plant derivative",
                                                  prevalence |-> 345]>>,
                                  <<"yuzu", [origin |-> "unknown"]>> >>,
               ingredient_pairs |-> <<Pair(n), Pair(m)>>] :
                n \in {15, 30, 40}, m \in {5, 20}}
        \cup {[ingredient_pairs |-> <<Pair(40), [ingredient1 |-> "miso", ingredient2 |-> "tofu"]>>],
              [ingredients |-> << <<"yuzu", [category |-> "fruit"]>> >>],
              [version |-> "1"]}

CsvFiles ==
    {[readable |-> TRUE, columns |-> <<"method", "temperature">>,
      rows |-> << <<"bake", "180">>, <<"fry", "">> >>,
      path |-> "data/processed/cooking_methods.csv"],
     [readable |-> TRUE, columns |-> <<"method">>,
      rows |-> <<>>, path |-> "data/processed/cooking_methods.csv"],
     [readable |-> FALSE, path |-> "data/processed/cooking_methods.csv"]}

PostSear ==
    [comments |-> <<[author |-> "ann", body |-> "Get it very hot first."],
                    [body |-> "Pat the chicken dry."],
                    [author |-> "cy"],
                    [author |-> "dee", body |-> "Do not crowd the pan."],
                    [author |-> "eli", body |-> "Use oil with a high smoke point."],
                    [author |-> "flo", body |-> "Rest it."]>>,
     title |-> "Best pan for searing?",
     selftext |-> "Cast iron. See https://example.com/guides/how-to-sear-chicken-in-cast-iron for more!"]

PostShort == [selftext |-> "Is miso vegan?"]

RedditFiles ==
    {[data |-> <<PostSear, PostShort>>, readable |-> TRUE, path |-> "data/processed/reddit/cooking.json"],
     [data |-> <<PostShort>>, readable |-> TRUE, path |-> "data/processed/reddit/cooking.json"],
     [data |-> <<>>, readable |-> TRUE, path |-> "data/processed/reddit/cooking.json"],
     [readable |-> FALSE, path |-> "data/processed/reddit/cooking.json"]}

\* chunk_size and chunk_overlap given to apply_recursive_chunking
Budgets ==
    {[chunk_size |-> 24, chunk_overlap |-> 4],
     [chunk_size |-> 60, chunk_overlap |-> 10],
     [chunk_size |-> DefaultChunkSize, chunk_overlap |-> DefaultChunkOverlap]}

\* bound on the splitter passes applied to the chunks of one chunker call
MaxPasses == 2

ChunkFcs ==
    \E data \in FcsRecords, source_file \in {"FCS.json", "healthy_cooking_method.json"} :
        call_chunker("chunk_fcs_json", data, source_file,
                     Chunked(chunk_fcs_json(data, source_file)))

ChunkRecipe ==
    \E data \in RecipeRecords :
        call_chunker("chunk_recipe_json", data, "miso_soup.json",
                     chunk_recipe_json(data, "miso_soup.json"))

ChunkCuisine ==
    \E items \in CuisineDicts :
        call_chunker("chunk_cuisine_ingredients_dict", items, "cuisine_ingredient_data.json",
                     Chunked(chunk_cuisine_ingredients_dict(items, "cuisine_ingredient_data.json")))

ChunkIngredientData ==
    \E data \in IngredientData :
        call_chunker("chunk_ingredient_data_json", data, "ingredient_data.json",
                     chunk_ingredient_data_json(data, "ingredient_data.json"))

ChunkCsv ==
    \E df \in CsvFiles :
        call_chunker("chunk_csv_simple", df, df.path, Chunked(chunk_csv_simple(df.path, df)))

ChunkReddit ==
    \E file \in RedditFiles :
        call_chunker("chunk_reddit_json", file, file.path,
                     Chunked(chunk_reddit_json(file.path, file)))

RecursiveChunking == \E budget \in Budgets : recursive_chunking(budget, MaxPasses)

NextChunkers ==
    \/ ChunkFcs
    \/ ChunkRecipe
    \/ ChunkCuisine
    \/ ChunkIngredientData
    \/ ChunkCsv
    \/ ChunkReddit
    \/ RecursiveChunking

SpecChunkers == Init /\ [][NextChunkers]_vars

\* files of the foc folder, in glob order
FocMiso == [data |-> RecipeMiso, path |-> "data/processed/foc/foc_ingredients_miso_soup.json"]

FocChicken == [data |-> RecipeNoItem, path |-> "data/processed/foc/foc_ingredients_chicken.json"]

FocSections == [data |-> [version |-> "1"], path |-> "data/processed/foc/foc_sections.json"]

FcsSmall ==
    [cooking_methods |-> <<[kind |-> "str", value |-> "Cook over fire.", name |-> "Grilling"]>>,
     food_preparation_tips |-> <<"Wash hands", "Trim visible fat">>]

RedditFile ==
    [data |-> <<PostShort>>, readable |-> TRUE, path |-> "data/processed/reddit/cooking.json"]

\* what exists under processed_data_path
Folders ==
    {\* every source, all records well formed
     [cuisine |-> << <<"Italian", << <<"tomato", "basil">>, <<"tomato", "garlic">> >> >> >>,
      fcs |-> FcsSmall,
      healthy |-> [introduction |-> "Steam, poach, grill."],
      foc |-> <<FocSections, FocMiso>>,
      recipes_3a2m |-> [data |-> <<[dish_name |-> "Toast"]>>, readable |-> TRUE],
      ingredient_data |-> [ingredient_pairs |-> <<Pair(40)>>],
      csv |-> [readable |-> TRUE, columns |-> <<"method">>, rows |-> << <<"bake">> >>,
               path |-> "data/processed/cooking_methods.csv"],
      reddit |-> <<RedditFile>>],
     \* a recipe file whose second ingredient entry lacks 'item'
     [fcs |-> FcsSmall, foc |-> <<FocMiso, FocChicken>>],
     \* a pair that lacks 'num_shared_compound'
     [foc |-> <<FocMiso>>,
      ingredient_data |->
          [ingredient_pairs |-> <<Pair(20), [ingredient1 |-> "miso", ingredient2 |-> "tofu"]>>]],
     \* a recipe array whose second record is malformed, and a cuisine mapping
     \* with an ingredient that is not a string
     [cuisine |-> << <<"Thai", << <<"basil", JsonObject>> >> >> >>,
      recipes_3a2m |-> [data |-> <<RecipeMiso, RecipeNoItem, [dish_name |-> "Toast"]>>, readable |-> TRUE]],
     \* a recipe array that is not json, next to the healthy-cooking file
     [healthy |-> [introduction |-> "Steam, poach, grill."],
      recipes_3a2m |-> Unreadable],
     \* discussions only
     [reddit |-> <<RedditFile>>],
     \* a file with none of the known sections
     [fcs |-> [version |-> "1"]],
     \* recipes only
     [foc |-> <<FocMiso>>]}

\* ingest_data calls per behaviour
MaxRuns == 3

IngestData == \E f \in Folders : ingest_data(f, MaxRuns)

\* collection.add, with either outcome on an id the collection holds
AddBatch == \E on_duplicate \in {"ignore", "raise"} : add_batch(on_duplicate)

NextIngest ==
    \/ IngestData
    \/ AddBatch

SpecIngest == Init /\ [][NextIngest]_vars

\* FCS.json with n one-line cooking methods, which give n chunks
FcsOfSize(n) ==
    [cooking_methods |-> [i \in 1..n |-> [kind |-> "str", value |-> "Cook.", name |-> "m" \o IntStr(i)]]]

\* folders that give none, one, two, a whole batch, and a batch and one chunks
BatchFolders == {[fcs |-> FcsOfSize(n)] : n \in {0, 1, 2, BatchSize, BatchSize + 1}}

\* ingest_data calls per behaviour over the folders of whole batches
MaxBatchRuns == 3

IngestBatches == \E f \in BatchFolders : ingest_data(f, MaxBatchRuns)

NextBatches ==
    \/ IngestBatches
    \/ AddBatch

SpecBatches == Init /\ [][NextBatches]_vars

(***************************************************************************)
(* Properties                                                              *)
(***************************************************************************)

\* a public call has ended and its outcome is in result
CallEnded == pc = "idle" /\ result.kind \in {"return", "raise"}

\* the call in progress, or the latest one, reached _answer_simple from
\* _answer_with_reasoning
FellBack == route = "reasoning" /\ InSimple

\* C1: conversation_history holds at most 10 turns, and they are the latest
\* appended turns in the order they were appended; once 11 turns have been
\* appended to an empty history, the first is gone and the second is the
\* oldest one held.
C1_HistoryIsLatestTen ==
    LET n == Len(committed)
        k == Len(conversation_history)
    IN  /\ k <= 10
        /\ k = (IF n < 10 THEN n ELSE 10)
        /\ \A i \in 1..k : conversation_history[i] = committed[n - k + i]
        /\ (n = 11 => conversation_history[1] = committed[2])

C1_Witness ==
    /\ pc = "idle"
    /\ Len(committed) = 11
    /\ Len(conversation_history) = 10
    /\ committed[1] # committed[2]
    /\ conversation_history[1] = committed[2]
    /\ conversation_history[10] = committed[11]

\* C2: the step of _answer_simple that gets no documents from the store ends
\* the call with ("I couldn't find any relevant cooking info in my database.",
\* []), makes no generation call, and leaves conversation_history as it was
\* when the call began.
C2_EmptyRetrievalSimple ==
    [][(pc = "retrieve_simple" /\ pc' # pc /\ contexts' = <<>>)
        => /\ pc' = "idle"
           /\ result'.kind = "return"
           /\ result'.answer = "I couldn't find any relevant cooking info in my database."
           /\ result'.sources = {}
           /\ gen_calls' = gen_calls
           /\ last_gen' = last_gen
           /\ conversation_history' = conversation_history
           /\ conversation_history' = hist_at_call]_vars

C2_Witness ==
    /\ CallEnded
    /\ frame = "simple"
    /\ contexts = <<>>
    /\ result = Returned(NoInfoSimple, {})
    /\ gen_calls = 0
    /\ hist_at_call # <<>>
    /\ conversation_history = hist_at_call

\* C3 (as claimed): a failed sampled call is followed by the greedy call
\* exactly when the failure is the degenerate-distribution one the except
\* clause tests for; after any other failure of the sampled call the
\* answer_question call has ended by raising that failure, having made one
\* generation call only.
C3_OtherFailuresReachCaller ==
    (last_gen.mode = "sampled" /\ ~last_gen.ok)
        => IF is_retryable(last_gen.error)
           THEN pc = "gen_greedy"
           ELSE /\ pc = "idle"
                /\ result = Raised(last_gen.error)
                /\ gen_calls = 1

\* C4 (as claimed): an answer_question call makes at most one decomposition
\* call and at most two generation calls, and a failure of the greedy retry
\* ends the call by raising that failure.
C4_BoundedModelCalls ==
    /\ decomp_calls <= 1
    /\ gen_calls <= 2
    /\ (last_gen.mode = "greedy" /\ ~last_gen.ok)
          => (pc = "idle" /\ result = Raised(last_gen.error))

\* C5: when the breakdown call raises or yields no usable sub-question, the
\* request is answered as _answer_simple(question) answers: the store is asked
\* for 3 documents with the rewrite of the original question, an empty result
\* gives the simple path's no-information pair, a generated answer is returned
\* with the sources of the retrieved documents and appended under the
\* original question, and the only error that can reach the caller is the one
\* raised by the generation call.
C5_FallbackIsSimplePath ==
    /\ (route = "reasoning" /\ decomp_calls >= 1 /\ sub_questions = <<>>) => InSimple
    /\ (pc = "retrieve_sub" => Len(sub_questions) >= 1)
    /\ (FellBack /\ CallEnded) =>
          /\ last_query = [text |-> rewrite_query_with_context(question, hist_at_call),
                           n_results |-> 3]
          /\ all_contexts = <<>>
          /\ IF contexts = <<>>
             THEN /\ result = Returned("I couldn't find any relevant cooking info in my database.", {})
                  /\ conversation_history = hist_at_call
             ELSE IF result.kind = "return"
                  THEN /\ last_gen.ok
                       /\ result.answer = clean_answer(last_gen.text)
                       /\ result.sources = format_sources(metadatas)
                       /\ conversation_history =
                             commit_turn(hist_at_call, question, result.answer)
                  ELSE /\ ~last_gen.ok
                       /\ result.error = last_gen.error
                       /\ conversation_history = hist_at_call

C5_Witness ==
    /\ FellBack
    /\ CallEnded
    /\ result.kind = "return"
    /\ contexts # <<>>
    /\ hist_at_call # <<>>
    /\ contextualized_query # question
    /\ conversation_history[Len(conversation_history)].user = question

\* C6 (as claimed): an answer_question call that returns gives a non-empty
\* answer string.
C6_AnswerNeverEmpty == (CallEnded /\ result.kind = "return") => result.answer # ""

\* none of the delimiter markers, and no "<|", occurs in s
MarkerFree(s) ==
    /\ ~Contains(s, "<|assistant|>")
    /\ ~Contains(s, "<|user|>")
    /\ ~Contains(s, "<|end|>")
    /\ ~Contains(s, "<|system|>")
    /\ ~Contains(s, "</s>")
    /\ ~Contains(s, "<|")

\* C7: whatever the model produced, the returned answer and every assistant
\* text in conversation_history contain none of "<|assistant|>", "<|user|>",
\* "<|end|>", "<|system|>", "</s>", and no "<|".
C7_NoMarkerLeaks ==
    /\ (result.kind = "return" => MarkerFree(result.answer))
    /\ \A i \in 1..Len(conversation_history) : MarkerFree(conversation_history[i].assistant)

C7_Witness ==
    /\ CallEnded
    /\ result.kind = "return"
    /\ last_gen.ok
    /\ Contains(last_gen.text, "</s>")
    /\ Contains(last_gen.text, "<|")
    /\ ~StartsWith(last_gen.text, "<")
    /\ result.answer # ""
    /\ conversation_history[Len(conversation_history)].assistant = result.answer

\* C8: clear_history leaves conversation_history empty whatever it held, a
\* second clear_history leaves it empty, and from a clear until the next turn
\* is appended every rewrite gives back the question it was given.
C8_ClearedMeansNoContext ==
    cleared =>
        /\ conversation_history = <<>>
        /\ (route # "none" => contextualized_query = question)
        /\ \A q \in Questions : rewrite_query_with_context(q, conversation_history) = q

C8_Witness ==
    /\ cleared
    /\ result.kind = "cleared"
    /\ Len(hist_at_call) = 2
    /\ conversation_history = <<>>

\* the keyword list of the claim
ClaimedKeywords ==
    <<"why", "how", "explain", "compare", "difference", "should i",
      "substitute", "alternative", "versus", "vs", "or">>

\* C9 (as claimed): a question goes to the reasoning path exactly when it
\* holds one of the claimed keywords; "How do I sear chicken?" goes to the
\* reasoning path and "What's for dinner" goes to the simple path.
C9_Routing ==
    route # "none" =>
        /\ (route = "reasoning" <=> ContainsAny(Lower(question), ClaimedKeywords))
        /\ (question = "How do I sear chicken?" => route = "reasoning")
        /\ (question = "What's for dinner" => route = "simple")

\* the reference words of the claim
ClaimedReferenceWords ==
    <<"it", "that", "this", "them", "those", "the same", "also", "too">>

\* the query is the rendering of earlier turns followed by the question
IsContextualized(query, q, history) ==
    /\ query # q
    /\ StartsWith(query, "Given previous discussion:\n")
    /\ EndsWith(query, "\n\nCurrent question: " \o q)
    /\ Contains(query, "User: " \o history[Len(history)].user \o "\nAssistant: ")

\* C10: with a non-empty history, the rewrite of a question with fewer than 5
\* whitespace-delimited tokens, or holding a reference word, is the rendering
\* of the history followed by the question; the rewrite of any other question
\* is the question itself.
C10_RewriteRule ==
    (route # "none" /\ hist_at_call # <<>>) =>
        IF \/ TokenCount(question) < 5
           \/ ContainsAny(Lower(question), ClaimedReferenceWords)
        THEN IsContextualized(contextualized_query, question, hist_at_call)
        ELSE contextualized_query = question

C10_Witness ==
    /\ route # "none"
    /\ Len(hist_at_call) = 1
    /\ TokenCount(question) >= 5
    /\ ContainsAny(Lower(question), ClaimedReferenceWords)
    /\ ~ContainsAny(question, ClaimedReferenceWords)
    /\ IsContextualized(contextualized_query, question, hist_at_call)

\* the positions of seq that hold a value no earlier position holds
FirstSeen(seq) == {i \in 1..Len(seq) : \A j \in 1..(i - 1) : seq[j] # seq[i]}

\* the positions of all_contexts whose text is placed in the prompt when the
\* first 3 distinct texts are kept
KeptPositions ==
    {i \in FirstSeen(all_contexts) :
        Cardinality({j \in FirstSeen(all_contexts) : j < i}) < 3}

\* _answer_with_reasoning has built its context, or went on from there
ReasoningContextBuilt ==
    /\ frame = "reasoning"
    /\ all_contexts # <<>>
    /\ pc \in {"gen_sampled", "gen_greedy"} \/ CallEnded

\* C11: on the reasoning path the contexts placed in the generation prompt
\* are the retrieved contexts of all sub-questions with exact duplicates
\* removed, in first-seen order, cut to the first 3: no two of them are equal,
\* there are at most 3, each is the text at a kept position of the
\* concatenated retrieval results in the same order, and the prompt's context
\* is built from them.
C11_UniqueContextsFirstThree ==
    ReasoningContextBuilt =>
        /\ Len(unique_contexts) <= 3
        /\ \A i, j \in 1..Len(unique_contexts) :
              i # j => unique_contexts[i] # unique_contexts[j]
        /\ Len(unique_contexts) = Cardinality(KeptPositions)
        /\ \A i \in KeptPositions :
              unique_contexts[Cardinality({j \in KeptPositions : j <= i})] = all_contexts[i]
        /\ context_text = build_context_text(unique_contexts)

\* four retrieved contexts, one a duplicate of an earlier one, and a fourth
\* distinct text that the cut drops
C11_Witness ==
    /\ ReasoningContextBuilt
    /\ CallEnded
    /\ result.kind = "return"
    /\ Len(all_contexts) = 4
    /\ Cardinality(FirstSeen(all_contexts)) = 4
    /\ Len(unique_contexts) = 3

\* the call ended by returning an answer that a generation call produced
ReturnedGenerated ==
    CallEnded /\ result.kind = "return" /\ last_gen.mode # "none" /\ last_gen.ok

\* the base names of the origins of the retrieved documents whose text is
\* part of the generation context
SourcesOfUsedContexts ==
    IF InSimple
    THEN {SplitLast(MetaSource(metadatas[i]), "/") : i \in 1..Len(metadatas)}
    ELSE {SplitLast(MetaSource(all_metadatas[i]), "/") :
            i \in {k \in 1..Len(all_contexts) :
                     \E u \in 1..Len(unique_contexts) : unique_contexts[u] = all_contexts[k]}}

\* C12 (as claimed): on both paths the sources returned with a generated
\* answer (a collection without duplicates) are exactly the base names of the
\* origins of the contexts used to build the generation context: none is
\* listed whose context was not used, and none of a used context is missing.
C12_SourcesOfUsedContextsOnly ==
    ReturnedGenerated => result.sources = SourcesOfUsedContexts

\* C13: a call that returns a generated answer has appended exactly one turn
\* to conversation_history: its user field is the question as the caller
\* passed it and its assistant field is the returned answer, and the turns
\* held before are as they were (the oldest one leaves when there were 10);
\* this holds on the simple path, the reasoning path and the fallback from
\* the reasoning path to the simple one.
C13_OneTurnOriginalQuestion ==
    ReturnedGenerated =>
        LET h0 == hist_at_call
            h == conversation_history
            dropped == IF Len(h0) < 10 THEN 0 ELSE 1
        IN  /\ Len(h) = Len(h0) + 1 - dropped
            /\ h[Len(h)] = [user |-> question, assistant |-> result.answer]
            /\ \A i \in 1..(Len(h) - 1) : h[i] = h0[i + dropped]
            /\ Len(committed) >= 1
            /\ committed[Len(committed)] = h[Len(h)]

\* the fallback answered a question that the rewrite had changed, with a turn
\* already in the history
C13_Witness ==
    /\ ReturnedGenerated
    /\ FellBack
    /\ hist_at_call # <<>>
    /\ contextualized_query # question
    /\ conversation_history = Append(hist_at_call, [user |-> question, assistant |-> result.answer])

\* the budget of the latest splitter pass
LastBudget == split_passes[Len(split_passes)]

WithinBudget(chunk) == Len(chunk.text) <= LastBudget.chunk_size

\* C16 (as claimed): apply_recursive_chunking is idempotent for a fixed
\* budget: a chunk whose text is at or under chunk_size is in the output as
\* it was (a list of such chunks is returned as it is), and a pass over the
\* output of a pass with the same budget changes nothing, neither text nor
\* metadata nor chunk_part.
C16_SplittingIdempotent ==
    split_passes # <<>> =>
        /\ \A i \in 1..Len(before_split) :
              WithinBudget(before_split[i])
                  => \E j \in 1..Len(chunks) :
                        /\ chunks[j].text = before_split[i].text
                        /\ DOMAIN chunks[j].metadata = DOMAIN before_split[i].metadata
                        /\ chunks[j].metadata = before_split[i].metadata
        /\ (\A i \in 1..Len(before_split) : WithinBudget(before_split[i]))
              => chunks = before_split
        /\ (Len(split_passes) >= 2 /\ split_passes[Len(split_passes) - 1] = LastBudget)
              => chunks = before_split

\* C17: every chunk the chunkers and apply_recursive_chunking give has a
\* non-empty text and a metadata mapping with both 'type' and 'source'.
C17_ChunksWellFormed ==
    \A i \in 1..Len(chunks) :
        /\ chunks[i].text # ""
        /\ "type" \in DOMAIN chunks[i].metadata
        /\ "source" \in DOMAIN chunks[i].metadata

\* the chunks of a discussion file were split into more, numbered pieces
C17_Witness ==
    /\ chunker_call.fn = "chunk_reddit_json"
    /\ Len(split_passes) = 1
    /\ Len(chunks) > Len(before_split)
    /\ \E i \in 1..Len(chunks) :
          /\ "chunk_part" \in DOMAIN chunks[i].metadata
          /\ chunks[i].metadata.chunk_part >= 1
          /\ chunks[i].metadata.type = "reddit_comments"

\* the latest call was chunk_cuisine_ingredients_dict on a well-formed mapping
CuisineCall ==
    /\ chunker_call.fn = "chunk_cuisine_ingredients_dict"
    /\ split_passes = <<>>
    /\ \A i \in 1..Len(chunker_call.record) :
          \A r \in 1..Len(chunker_call.record[i][2]) :
              \A k \in 1..Len(chunker_call.record[i][2][r]) :
                  chunker_call.record[i][2][r][k] # "{}"

\* the distinct ingredients of the i-th cuisine of the mapping
IngredientsOfCuisine(i) ==
    LET recipes == chunker_call.record[i][2]
    IN  UNION {{recipes[r][k] : k \in 1..Len(recipes[r])} : r \in 1..Len(recipes)}

ChunksOfType(type) == {j \in 1..Len(chunks) : chunks[j].metadata.type = type}

\* C18: chunk_cuisine_ingredients_dict gives exactly one profile chunk per
\* cuisine, which states that cuisine's recipe count and its number of
\* distinct ingredients, one ingredient-cuisine chunk for each ingredient of
\* two or more distinct cuisines and none for any other ingredient, and
\* nothing else; for {"Italian": [["tomato","basil"],["tomato","garlic"]]} it
\* gives one profile chunk with "2 recipes" and "3 unique ingredients" and no
\* ingredient-cuisine chunk.
C18_CuisineChunks ==
    CuisineCall =>
        LET items == chunker_call.record
            profiles == ChunksOfType("cuisine_profile")
            maps == ChunksOfType("ingredient_cuisine_map")
            all == UNION {IngredientsOfCuisine(i) : i \in 1..Len(items)}
        IN  /\ Cardinality(profiles) = Len(items)
            /\ Cardinality(profiles) + Cardinality(maps) = Len(chunks)
            /\ \A i \in 1..Len(items) :
                  /\ Cardinality({j \in profiles :
                        StartsWith(chunks[j].text, items[i][1] \o " Cuisine\n")}) = 1
                  /\ \A j \in profiles :
                        StartsWith(chunks[j].text, items[i][1] \o " Cuisine\n")
                            => EndsWith(chunks[j].text,
                                        "Based on " \o ToString(Len(items[i][2])) \o " recipes with "
                                            \o ToString(Cardinality(IngredientsOfCuisine(i)))
                                            \o " unique ingredients.")
            /\ \A ing \in all :
                  Cardinality({j \in maps : chunks[j].metadata.ingredient = ing})
                      = (IF Cardinality({i \in 1..Len(items) : ing \in IngredientsOfCuisine(i)}) >= 2
                         THEN 1 ELSE 0)
            /\ (items = << <<"Italian", << <<"tomato", "basil">>, <<"tomato", "garlic">> >> >> >>)
                  => /\ Len(chunks) = 1
                     /\ Contains(chunks[1].text, "2 recipes")
                     /\ Contains(chunks[1].text, "3 unique ingredients")
                     /\ maps = {}

\* two cuisines that share basil and nothing else
C18_Witness ==
    /\ CuisineCall
    /\ chunker_call.record =
          << <<"Italian", << <<"tomato", "basil">>, <<"tomato", "garlic">> >> >>,
             <<"Thai", << <<"basil", "fish_sauce">> >> >> >>
    /\ Len(chunks) = 3
    /\ chunks[3].metadata.type = "ingredient_cuisine_map"
    /\ chunks[3].metadata.ingredient = "basil"

\* the latest call was chunk_ingredient_data_json and it returned
PairingCall ==
    /\ chunker_call.fn = "chunk_ingredient_data_json"
    /\ chunker_call.error.type = ""
    /\ split_passes = <<>>

ClaimedLabel(count) ==
    IF count > 30 THEN "Strongly"
    ELSE IF 15 < count /\ count <= 30 THEN "Moderately"
    ELSE "Somewhat"

\* C19: chunk_ingredient_data_json gives exactly one chunk per pair, labelled
\* by the pair's shared-compound count: over 30 "Strongly", over 15 and up to
\* 30 "Moderately", up to 15 "Somewhat"; so 40, 20 and 5 give Strongly,
\* Moderately and Somewhat, and 30 and 15 give Moderately and Somewhat.
C19_PairingLabels ==
    PairingCall =>
        LET pairs == IF "ingredient_pairs" \in DOMAIN chunker_call.record
                     THEN chunker_call.record.ingredient_pairs ELSE <<>>
            labelled(i, label) ==
                Contains(chunks[i].text, "Pairing strength: " \o label \o "\n")
        IN  /\ Cardinality(ChunksOfType("ingredient_pairing")) = Len(pairs)
            /\ \A i \in 1..Len(pairs) :
                  LET count == pairs[i].num_shared_compound
                  IN  /\ chunks[i].metadata.type = "ingredient_pairing"
                      /\ chunks[i].metadata.shared_compounds = count
                      /\ labelled(i, ClaimedLabel(count))
                      /\ \A other \in {"Strongly", "Moderately", "Somewhat"} \ {ClaimedLabel(count)} :
                            ~labelled(i, other)
                      /\ (count = 40 => labelled(i, "Strongly"))
                      /\ (count = 20 => labelled(i, "Moderately"))
                      /\ (count = 5 => labelled(i, "Somewhat"))
                      /\ (count = 30 => labelled(i, "Moderately"))
                      /\ (count = 15 => labelled(i, "Somewhat"))

\* a pair at the boundary 30 and a pair at 20, with two ingredient entries
C19_Witness ==
    /\ PairingCall
    /\ Len(chunks) = 4
    /\ chunks[1].metadata.type = "ingredient_pairing"
    /\ chunks[1].metadata.shared_compounds = 30
    /\ Contains(chunks[1].text, "Pairing strength: Moderately\n")
    /\ chunks[2].metadata.shared_compounds = 20
    /\ chunks[3].metadata.type = "ingredient_info"

\* the recipe files of a folder that ingest_data chunks
FocFiles(processed) ==
    SelectSeq(Get(processed, "foc", <<>>), LAMBDA f : ~Contains(f.path, "sections"))

\* a recipe with an ingredient entry that lacks 'item' or 'quantity'
MalformedRecipe(data) ==
    \E i \in 1..Len(Get(data, "ingredients", <<>>)) :
        {"item", "quantity"} \ DOMAIN data.ingredients[i] # {}

\* an ingredient record with a pair that lacks one of its three keys
MalformedPairs(data) ==
    \E i \in 1..Len(Get(data, "ingredient_pairs", <<>>)) :
        {"ingredient1", "ingredient2", "num_shared_compound"} \ DOMAIN data.ingredient_pairs[i] # {}

\* the folder has a malformed recipe file or a malformed ingredient record
MalformedRecordIn(processed) ==
    \/ \E i \in 1..Len(FocFiles(processed)) : MalformedRecipe(FocFiles(processed)[i].data)
    \/ /\ "ingredient_data" \in DOMAIN processed
       /\ MalformedPairs(processed.ingredient_data)

\* the first ingest_data call on a fresh store has ended
FirstIngestEnded == runs = 1 /\ ingest_pc = "idle"

\* C14 (as claimed): when ingest_data meets a malformed source record (a
\* recipe whose ingredient entry lacks 'item', an ingredient pair without
\* 'num_shared_compound'), no error leaves ingest_data and the chunk of every
\* well-formed recipe file of the folder is in the store.
C14_MalformedRecordSkipped ==
    (FirstIngestEnded /\ MalformedRecordIn(folder)) =>
        /\ ingest_result.kind # "raise"
        /\ \A i \in 1..Len(FocFiles(folder)) :
              ~MalformedRecipe(FocFiles(folder)[i].data)
                  => \E j \in 1..Len(collection) :
                        /\ collection[j].metadata.type = "recipe"
                        /\ collection[j].metadata.source = Basename(FocFiles(folder)[i].path)

\* C15 (as claimed): whatever ingest_data runs were made on the store, no id
\* was given to two different chunks, chunks of different runs included, and
\* no two documents of the collection have the same id.
C15_IdsUniqueAcrossRuns ==
    /\ \A a \in assigned : \A b \in assigned :
          a.id = b.id => (a.text = b.text /\ a.metadata = b.metadata)
    /\ \A i \in 1..Len(collection) : \A j \in 1..Len(collection) :
          collection[i].id = collection[j].id => i = j

\* C20 (as claimed): whatever the raw model output, the answer that
\* _generate_answer returns has no leading or trailing whitespace and does not
\* begin with the label "Answer:" or "Response:", also when the raw output
\* carries both labels, in either order.
C20_NoLabelPrefix ==
    ReturnedGenerated =>
        /\ Strip(result.answer) = result.answer
        /\ ~StartsWith(result.answer, "Answer:")
        /\ ~StartsWith(result.answer, "Response:")

\* the generation prompt of the call in progress has been built
PromptBuilt == pc \in {"gen_sampled", "gen_greedy"}

\* the contexts the prompt is built from: those of the body that runs
UsedContexts == IF frame = "reasoning" THEN unique_contexts ELSE contexts

\* C21: on both paths the context text in the generation prompt is the used
\* contexts joined by "\n\n---\n\n" when the joined text has at most 1200
\* characters, and otherwise its first 1200 characters followed by "...";
\* it is never longer than 1203 characters.
C21_ContextTextBudget ==
    PromptBuilt =>
        LET joined == Join("\n\n---\n\n", UsedContexts)
        IN  /\ Len(joined) <= 1200 => context_text = joined
            /\ Len(joined) > 1200
                  => /\ Len(context_text) = 1203
                     /\ SubSeq(context_text, 1, 1200) = SubSeq(joined, 1, 1200)
                     /\ SubSeq(context_text, 1201, 1203) = "..."
            /\ Len(context_text) <= 1203

\* reasoning path, two contexts whose joined text is exactly 1200 characters
C21_Witness ==
    /\ PromptBuilt
    /\ frame = "reasoning"
    /\ Len(unique_contexts) = 2
    /\ Len(Join("\n\n---\n\n", unique_contexts)) = 1200
    /\ context_text = Join("\n\n---\n\n", unique_contexts)

\* the rewrite of the call contextualized the question
Contextualized == route # "none" /\ contextualized_query # question

\* the turn of hist_at_call rendered at place i of the last k turns
ClaimedTurnLine(k, i) ==
    LET turn == hist_at_call[Len(hist_at_call) - k + i]
        preview == IF Len(turn.assistant) <= 100 THEN turn.assistant
                   ELSE SubSeq(turn.assistant, 1, 100)
    IN  "User: " \o turn.user \o "\nAssistant: " \o preview

\* C22: a contextualized query is the rendering of exactly the last
\* min(2, length of history) turns, the older one first, each with its whole
\* user text and the first 100 characters at most of its assistant text,
\* followed by the question: no older turn is in it; and the rewrite leaves
\* conversation_history as it was.
C22_RewriteRecentTurns ==
    Contextualized =>
        LET k == IF Len(hist_at_call) < 2 THEN Len(hist_at_call) ELSE 2
            rendering == IF k = 1 THEN ClaimedTurnLine(1, 1)
                         ELSE ClaimedTurnLine(2, 1) \o "\n" \o ClaimedTurnLine(2, 2)
        IN  /\ k >= 1
            /\ contextualized_query =
                  "Given previous discussion:\n" \o rendering
                      \o "\n\nCurrent question: " \o question
            /\ pc # "idle" => conversation_history = hist_at_call

\* a third question, after an answer of 101 characters and a short one: the
\* first turn is left out and the long answer is cut
C22_Witness ==
    /\ Contextualized
    /\ pc # "idle"
    /\ Len(hist_at_call) = 3
    /\ hist_at_call[1].user # hist_at_call[2].user
    /\ hist_at_call[1].user # hist_at_call[3].user
    /\ Len(hist_at_call[2].assistant) = 101
    /\ Len(hist_at_call[3].assistant) < 100
    /\ ~Contains(contextualized_query, hist_at_call[1].user)
    /\ ~Contains(contextualized_query, hist_at_call[2].assistant)

\* the documents handed to collection.add in the latest ingest_data call, in
\* the order of the calls
Handed == Flatten(add_calls)

\* the latest ingest_data call went through its batch loop to the end
IngestDone == ingest_pc = "idle" /\ ingest_result.kind = "done"

\* C23: within one ingest_data run over n collected chunks the add calls are
\* consecutive batches of at most 5000 (each but the last of exactly 5000),
\* every chunk is handed over exactly once and in its order, the chunk at
\* zero-based position j with the id "doc_j" (so the ids are distinct and go
\* on increasing from one batch to the next), and with n = 0 there is no add
\* call; on a store that was empty the collection then holds just these.
C23_BatchesNumberedInOrder ==
    LET n == Len(all_chunks)
    IN  /\ Len(Handed) <= n
        /\ \A b \in 1..Len(add_calls) :
              /\ Len(add_calls[b]) >= 1
              /\ Len(add_calls[b]) <= 5000
              /\ b < Len(add_calls) => Len(add_calls[b]) = 5000
        /\ \A j \in 0..(Len(Handed) - 1) :
              /\ Handed[j + 1].id = "doc_" \o ToString(j)
              /\ Handed[j + 1].text = all_chunks[j + 1].text
              /\ Handed[j + 1].metadata = all_chunks[j + 1].metadata
        /\ IngestDone => Len(Handed) = n
        /\ (ingest_pc = "idle" /\ n = 0) => add_calls = <<>>
        /\ (IngestDone /\ runs = 1) => collection = Handed

\* a run over 5001 chunks ended after two add calls, the second with doc_5000
C23_Witness ==
    /\ IngestDone
    /\ Len(all_chunks) = 5001
    /\ Len(add_calls) = 2
    /\ Len(add_calls[1]) = 5000
    /\ add_calls[2][1].id = "doc_5000"
    /\ add_calls[2][1].text = all_chunks[5001].text

\* the call ended in the body of _answer_with_reasoning with sub-questions
\* for none of which the store returned a document
NothingRetrievedReasoning ==
    /\ CallEnded
    /\ frame = "reasoning"
    /\ sub_questions # <<>>
    /\ all_contexts = <<>>

\* C24: on the reasoning path, when the breakdown gives sub-questions and the
\* store returns no document for any of them, the call returns
\* ("I couldn't find relevant information.", []), makes no generation call,
\* raises nothing, and leaves conversation_history as it was at call entry.
C24_EmptyRetrievalReasoning ==
    NothingRetrievedReasoning =>
        /\ result.kind = "return"
        /\ result.answer = "I couldn't find relevant information."
        /\ result.sources = {}
        /\ result.error = NoError
        /\ gen_calls = 0
        /\ last_gen = NoGen
        /\ decomp_calls = 1
        /\ conversation_history = hist_at_call

\* two sub-questions, both without documents, asked after an earlier turn
C24_Witness ==
    /\ NothingRetrievedReasoning
    /\ Len(sub_questions) = 2
    /\ sub_idx = 2
    /\ result = Returned(NoInfoReasoning, {})
    /\ hist_at_call # <<>>
    /\ conversation_history = hist_at_call

\* the call ended with an exception of _generate_answer reaching the caller
RaisedGenerationError ==
    /\ CallEnded
    /\ result.kind = "raise"
    /\ gen_calls >= 1
    /\ ~last_gen.ok
    /\ result.error = last_gen.error

\* C25: when an answer_question call ends by raising a generation error (a
\* failure the except clause does not retry, or a failure of the greedy
\* retry), conversation_history is what it was before the call, with no turn
\* appended and none evicted, whichever body ran.
C25_RaiseLeavesHistory ==
    (CallEnded /\ result.kind = "raise") =>
        /\ RaisedGenerationError
        /\ conversation_history = hist_at_call

\* the greedy retry failed on the reasoning path, after an earlier turn
C25_Witness ==
    /\ RaisedGenerationError
    /\ frame = "reasoning"
    /\ last_gen.mode = "greedy"
    /\ gen_calls = 2
    /\ hist_at_call # <<>>
    /\ conversation_history = hist_at_call

====
